---- MODULE Spec2Model ----
(***************************************************************************)
(* Story Point Sleuth: the chart pipeline of the Dashboard component       *)
(* (src/src/components/Dashboard.tsx, second component of the file).       *)
(*                                                                         *)
(* Numbers.  Story points are JSON numbers; the model uses integers, and a  *)
(* custom field may hold a string instead.                                 *)
(* Logged time arrives in whole seconds and is divided by 3600.  An hours  *)
(* quantity h is represented exactly by the integer h * HourUnit, with     *)
(* HourUnit = 7200, so seconds / 3600 is the integer 2 * seconds and       *)
(* 1.5 * iqr is the integer (3 * iqr) \div 2 (every such iqr is even).     *)
(* Arithmetic is exact; IEEE rounding is not modelled.                     *)
(*                                                                         *)
(* Time.  An instant is a whole number of hours since 1 January 1970,      *)
(* 00:00, in the local time zone, which has a fixed offset (no daylight    *)
(* saving).  Minutes and below are carried unchanged by setHours, setDate  *)
(* and setMonth and are not represented.                                   *)
(***************************************************************************)
EXTENDS Integers, Sequences, FiniteSets, TLC

VARIABLES issues, timeFilter, clock, filteredIssues, boxplot, scatter, histogram, reads,
          renderIssues, rendered

(* JiraApiService (src/src/services/jiraApi.ts): its five private fields, the
   'jira_oauth_state' entry of sessionStorage, the handleOAuthCallback calls
   that wait at an await, the requests sent so far, the result of the last
   call that finished, and whether logout was called with no
   handleOAuthCallback started since *)
VARIABLES api, accessToken, baseUrl, clientId, clientSecret, sessionStorage,
          callbacks, sent, outcome, loggedOut

(* quick-update.sh: the arguments not yet parsed, the three flags, the step
   main is at, what was done to S3 and CloudFront, what was printed, and the
   exit status *)
VARIABLES args, SKIP_BUILD, SKIP_INVALIDATION, DRY_RUN, step, s3, invalidations,
          printed, exitStatus

(* Dashboard: the loading requests in flight and the state they set *)
VARIABLES mounted, projects, selectedProject, loading, error, inFlight

chartVars ==
  <<issues, timeFilter, clock, filteredIssues, boxplot, scatter, histogram, reads,
    renderIssues, rendered>>

jiraVars ==
  <<api, accessToken, baseUrl, clientId, clientSecret, sessionStorage,
    callbacks, sent, outcome, loggedOut>>

scriptVars ==
  <<args, SKIP_BUILD, SKIP_INVALIDATION, DRY_RUN, step, s3, invalidations,
    printed, exitStatus>>

dashboardVars == <<mounted, projects, selectedProject, loading, error, inFlight>>

vars == <<chartVars, jiraVars, scriptVars, dashboardVars>>

---------------------------------------------------------------------------
(* JavaScript values of the loosely typed issue fields *)

Num(k) == [t |-> "number", n |-> k]

Undefined == [t |-> "undefined", n |-> 0]

(* a non-empty string that is not the text of a number *)
Text == [t |-> "string", n |-> 0]

Truthy(v) == (v.t = "number" /\ v.n # 0) \/ v.t = "string"

IsNumber(v) == v.t = "number"

GreaterThanZero(v) == v.t = "number" /\ v.n > 0

StrictEqualsZero(v) == v.t = "number" /\ v.n = 0

SecondsPerHour == 3600

HourUnit == 2 * SecondsPerHour

ToHours(seconds) == (seconds * HourUnit) \div SecondsPerHour

RECURSIVE SumSeq(_)
SumSeq(s) == IF s = <<>> THEN 0 ELSE Head(s) + SumSeq(Tail(s))

Filter(s, Test(_)) == SelectSeq(s, Test)

Map(s, F(_)) == [i \in 1..Len(s) |-> F(s[i])]

Range(s) == {s[i] : i \in 1..Len(s)}

Min2(a, b) == IF a <= b THEN a ELSE b

Max2(a, b) == IF a >= b THEN a ELSE b

SortNumbers(s) == SortSeq(s, LAMBDA a, b : a < b)

RECURSIVE SetToSortedSeq(_)
SetToSortedSeq(S) ==
  IF S = {} THEN <<>>
  ELSE LET m == CHOOSE x \in S : \A y \in S : x <= y
       IN <<m>> \o SetToSortedSeq(S \ {m})

---------------------------------------------------------------------------
(* The Date object: calendar arithmetic of setHours, setDate, setMonth *)

IsLeap(y) == (y % 4 = 0 /\ y % 100 # 0) \/ y % 400 = 0

DaysInMonth(y, m) ==
  IF m = 1 THEN (IF IsLeap(y) THEN 29 ELSE 28)
  ELSE IF m \in {3, 5, 8, 10} THEN 30 ELSE 31

DaysInYear(y) == IF IsLeap(y) THEN 366 ELSE 365

(* day number of 1 January of year y, counted from 1 January 1970 *)
DayFromYear(y) ==
  365 * (y - 1970) + ((y - 1969) \div 4) - ((y - 1901) \div 100) + ((y - 1601) \div 400)

RECURSIVE DayFromMonth(_, _)
DayFromMonth(y, m) == IF m = 0 THEN 0 ELSE DayFromMonth(y, m - 1) + DaysInMonth(y, m - 1)

MakeDayNoYearCarry(year, month, date) ==
  DayFromYear(year) + DayFromMonth(year, month % 12) + date - 1

(* month and date may lie outside 0..11 and 1..DaysInMonth: they carry over *)
MakeDay(year, month, date) ==
  LET ym == year + (month \div 12)
      mn == month % 12
  IN DayFromYear(ym) + DayFromMonth(ym, mn) + date - 1

Day(t) == t \div 24

HourFromTime(t) == t % 24

YearFromTime(t) ==
  CHOOSE y \in (1970 + (Day(t) \div 366))..(1970 + (Day(t) \div 365)) :
    DayFromYear(y) <= Day(t) /\ Day(t) < DayFromYear(y + 1)

MonthFromTime(t) ==
  LET y == YearFromTime(t)
      d == Day(t) - DayFromYear(y)
  IN CHOOSE m \in 0..11 : DayFromMonth(y, m) <= d /\ d < DayFromMonth(y, m) + DaysInMonth(y, m)

DateFromTime(t) ==
  LET y == YearFromTime(t)
  IN Day(t) - DayFromYear(y) - DayFromMonth(y, MonthFromTime(t)) + 1

(* Date.prototype.setHours, setDate, setMonth on the time value t *)
SetHours(t, hour) == Day(t) * 24 + hour

SetDate(t, date) ==
  MakeDay(YearFromTime(t), MonthFromTime(t), date) * 24 + HourFromTime(t)

SetMonth(t, month) ==
  MakeDay(YearFromTime(t), month, DateFromTime(t)) * 24 + HourFromTime(t)

(* the instant year-month-date hour:00, month counted from 0 *)
At(y, m, d, h) == MakeDay(y, m, d) * 24 + h

(* new Date(issue.fields.updated): a time value, or Invalid Date *)
ValidDate(t) == [valid |-> TRUE, time |-> t]

InvalidDate == [valid |-> FALSE, time |-> 0]

DateGreater(updatedDate, cutoffDate) == updatedDate.valid /\ updatedDate.time > cutoffDate

DateGeq(updatedDate, cutoffDate) == updatedDate.valid /\ updatedDate.time >= cutoffDate

---------------------------------------------------------------------------
(* filterIssuesByTime: now and cutoffDate are two separate clock reads *)

TimeFilters == {"all", "1h", "1d", "1w", "1m", "3m"}

CutoffDate(tf, now, cutoffDate) ==
  CASE tf = "1h" -> SetHours(cutoffDate, HourFromTime(now) - 1)
    [] tf = "1d" -> SetDate(cutoffDate, DateFromTime(now) - 1)
    [] tf = "1w" -> SetDate(cutoffDate, DateFromTime(now) - 7)
    [] tf = "1m" -> SetMonth(cutoffDate, MonthFromTime(now) - 1)
    [] tf = "3m" -> SetMonth(cutoffDate, MonthFromTime(now) - 3)

filterIssuesByTimeParsedOnly(iss, tf, now, cutoffDate) ==
  LET Parsed(issue) == issue.updated.valid
      Keep(issue) == DateGeq(issue.updated, CutoffDate(tf, now, cutoffDate))
  IN IF tf = "all" THEN Filter(iss, Parsed) ELSE Filter(iss, Keep)

filterIssuesByTime(iss, tf, now, cutoffDate) ==
  IF tf = "all" THEN iss
  ELSE IF tf \notin {"1h", "1d", "1w", "1m", "3m"} THEN iss
  ELSE LET cutoff == CutoffDate(tf, now, cutoffDate)
           Keep(issue) == DateGeq(issue.updated, cutoff)
       IN Filter(iss, Keep)

---------------------------------------------------------------------------
(* processIssuesForCharts: field extraction and the "has any signal" filter *)

(* issue.fields[name]: the value of the custom field, undefined when absent *)
Field(issue, name) ==
  IF \E i \in 1..Len(issue.custom) : issue.custom[i].field = name
  THEN issue.custom[CHOOSE i \in 1..Len(issue.custom) : issue.custom[i].field = name].value
  ELSE Undefined

KnownStoryPointFields ==
  <<"customfield_10016", "customfield_10004", "customfield_10002",
    "customfield_10003", "customfield_10005">>

(* a || b || c || d || e || 0 *)
FirstTruthy(issue) ==
  IF \E i \in 1..Len(KnownStoryPointFields) : Truthy(Field(issue, KnownStoryPointFields[i]))
  THEN LET i == CHOOSE j \in 1..Len(KnownStoryPointFields) :
                  /\ Truthy(Field(issue, KnownStoryPointFields[j]))
                  /\ \A k \in 1..(j - 1) : ~Truthy(Field(issue, KnownStoryPointFields[k]))
       IN Field(issue, KnownStoryPointFields[i])
  ELSE Num(0)

MaxFallbackValue == 100

(* the field names of the model that start with "customfield_" *)
CustomFieldNames ==
  Range(KnownStoryPointFields) \cup {"customfield_10020", "customfield_10001"}

StartsWithCustomfield(key) == key \in CustomFieldNames

NumericFieldsAnyKey(issue) ==
  LET Plausible(item) ==
        IsNumber(item.value) /\ item.value.n > 0 /\ item.value.n <= MaxFallbackValue
  IN Filter(issue.custom, Plausible)

(* issue.custom lists the entries of issue.fields in the order of Object.keys *)
NumericFields(issue) ==
  LET IsCustom(item) == StartsWithCustomfield(item.field)
      Plausible(item) ==
        IsNumber(item.value) /\ item.value.n > 0 /\ item.value.n <= MaxFallbackValue
  IN Filter(Filter(issue.custom, IsCustom), Plausible)

ExtractStoryPoints(issue) ==
  LET storyPoints == FirstTruthy(issue)
  IN IF StrictEqualsZero(storyPoints) /\ Len(NumericFields(issue)) > 0
     THEN NumericFields(issue)[1].value
     ELSE storyPoints

ExtractTimeSpentHours(issue) ==
  IF Truthy(issue.timespent) THEN ToHours(issue.timespent.n)
  ELSE IF Truthy(issue.timeSpentSeconds) THEN ToHours(issue.timeSpentSeconds.n)
  ELSE IF Len(issue.worklogs) > 0 THEN ToHours(SumSeq(issue.worklogs))
  ELSE 0

ProcessIssue(issue) ==
  [key |-> issue.key,
   storyPoints |-> ExtractStoryPoints(issue),
   timeSpentHours |-> ExtractTimeSpentHours(issue)]

HasSignalNonZero(p) == Truthy(p.storyPoints) \/ p.timeSpentHours # 0

HasSignal(p) == GreaterThanZero(p.storyPoints) \/ p.timeSpentHours > 0

HasBothFields(p) == GreaterThanZero(p.storyPoints) /\ p.timeSpentHours > 0

processIssuesForCharts(iss, tf, now, cutoffDate) ==
  LET filtered == filterIssuesByTime(iss, tf, now, cutoffDate)
      processed == Map(filtered, ProcessIssue)
  IN Filter(processed, HasSignal)

---------------------------------------------------------------------------
(* createBoxplotData *)

(* storyPointGroups: property key -> hours in the order the records come *)
GroupKeys(processed) == {p.storyPoints.n : p \in {q \in Range(processed) : HasBothFields(q)}}

GroupHours(processed, sp) ==
  LET InGroup(p) == HasBothFields(p) /\ p.storyPoints.n = sp
      Hours(p) == p.timeSpentHours
  IN Map(Filter(processed, InGroup), Hours)

Reverse(s) == [i \in 1..Len(s) |-> s[Len(s) + 1 - i]]

LabelsDescending(processed) == Reverse(SetToSortedSeq(GroupKeys(processed)))

Labels(processed) == SetToSortedSeq(GroupKeys(processed))

(* Math.floor(n * 0.25), Math.floor(n * 0.5), Math.floor(n * 0.75) *)
Q1IndexOffByOne(n) == ((n - 1) * 25) \div 100

Q1Index(n) == (n * 25) \div 100

MedianIndex(n) == (n * 5) \div 10

Q3IndexAsQ1(n) == (n * 25) \div 100

Q3Index(n) == (n * 75) \div 100

(* 1.5 * iqr, exact: iqr is a difference of two even numbers of hour units *)
OneAndHalf(iqr) == (3 * iqr) \div 2

LowerWhiskerUnclamped(hours, q1, iqr) == q1 - OneAndHalf(iqr)

LowerWhisker(hours, q1, iqr) == Max2(hours[1], q1 - OneAndHalf(iqr))

UpperWhisker(hours, q3, iqr) == Min2(hours[Len(hours)], q3 + OneAndHalf(iqr))

OutliersInclusive(hours, lowerWhisker, upperWhisker) ==
  LET Outside(h) == h <= lowerWhisker \/ h >= upperWhisker
  IN Filter(hours, Outside)

Outliers(hours, lowerWhisker, upperWhisker) ==
  LET Outside(h) == h < lowerWhisker \/ h > upperWhisker
  IN Filter(hours, Outside)

BoxplotStat(processed, sp) ==
  LET hours == SortNumbers(GroupHours(processed, sp))
      n == Len(hours)
      q1 == hours[Q1Index(n) + 1]
      median == hours[MedianIndex(n) + 1]
      q3 == hours[Q3Index(n) + 1]
      iqr == q3 - q1
      lowerWhisker == LowerWhisker(hours, q1, iqr)
      upperWhisker == UpperWhisker(hours, q3, iqr)
  IN [q1 |-> q1, median |-> median, q3 |-> q3,
      lowerWhisker |-> lowerWhisker, upperWhisker |-> upperWhisker,
      outliers |-> Outliers(hours, lowerWhisker, upperWhisker),
      count |-> n, label |-> sp]

(* the four stacked bar data sets: the heights q1 - lowerWhisker,
   median - q1, q3 - median and upperWhisker - q3 of every group *)
BoxplotDatasets(boxplotStats) ==
  LET BottomQuarter(stat) == stat.q1 - stat.lowerWhisker
      Q1ToMedian(stat) == stat.median - stat.q1
      MedianToQ3(stat) == stat.q3 - stat.median
      TopQuarter(stat) == stat.upperWhisker - stat.q3
  IN <<Map(boxplotStats, BottomQuarter), Map(boxplotStats, Q1ToMedian),
       Map(boxplotStats, MedianToQ3), Map(boxplotStats, TopQuarter)>>

BoxplotDataOf(processedIssues) ==
  LET labels == Labels(processedIssues)
      Stat(sp) == BoxplotStat(processedIssues, sp)
      boxplotStats == Map(labels, Stat)
      Label(stat) == stat.label
      storyPointGroups ==
        [sp \in GroupKeys(processedIssues) |-> SortNumbers(GroupHours(processedIssues, sp))]
  IN [labels |-> Map(boxplotStats, Label), boxplotStats |-> boxplotStats,
      storyPointGroups |-> storyPointGroups,
      datasets |-> BoxplotDatasets(boxplotStats)]

createBoxplotData(iss, tf, now, cutoffDate) ==
  BoxplotDataOf(processIssuesForCharts(iss, tf, now, cutoffDate))

---------------------------------------------------------------------------
(* JavaScript numbers that come out of a division: an exact fraction, NaN,
   or an infinity (num = 1 or -1 over den = 0) *)

RECURSIVE Gcd(_, _)
Gcd(a, b) == IF b = 0 THEN a ELSE Gcd(b, a % b)

Abs(a) == IF a < 0 THEN -a ELSE a

Fin(num, den) ==
  LET g == Gcd(Abs(num), Abs(den))
      sgn == IF den < 0 THEN -1 ELSE 1
  IN [k |-> "fin", num |-> sgn * (num \div g), den |-> sgn * (den \div g)]

Whole(a) == [k |-> "fin", num |-> a, den |-> 1]

NaN == [k |-> "nan", num |-> 0, den |-> 1]

Infinity(sign) == [k |-> "inf", num |-> sign, den |-> 0]

Sign(a) == IF a.num < 0 THEN -1 ELSE 1

IsFinite(a) == a.k = "fin"

JsLess(a, b) == a.k # "nan" /\ b.k # "nan" /\ a.num * b.den < b.num * a.den

JsNeg(a) == IF a.k = "nan" THEN NaN ELSE [k |-> a.k, num |-> -a.num, den |-> a.den]

JsAdd(a, b) ==
  IF a.k = "nan" \/ b.k = "nan" THEN NaN
  ELSE IF a.k = "inf" /\ b.k = "inf" THEN (IF a.num = b.num THEN a ELSE NaN)
  ELSE IF a.k = "inf" THEN a
  ELSE IF b.k = "inf" THEN b
  ELSE Fin(a.num * b.den + b.num * a.den, a.den * b.den)

JsSub(a, b) == JsAdd(a, JsNeg(b))

JsMul(a, b) ==
  IF a.k = "nan" \/ b.k = "nan" THEN NaN
  ELSE IF a.k = "inf" \/ b.k = "inf"
       THEN (IF a.num = 0 \/ b.num = 0 THEN NaN ELSE Infinity(Sign(a) * Sign(b)))
  ELSE Fin(a.num * b.num, a.den * b.den)

JsDiv(a, b) ==
  IF a.k = "nan" \/ b.k = "nan" THEN NaN
  ELSE IF a.k = "inf" /\ b.k = "inf" THEN NaN
  ELSE IF a.k = "inf" THEN Infinity(Sign(a) * Sign(b))
  ELSE IF b.k = "inf" THEN Whole(0)
  ELSE IF b.num = 0 THEN (IF a.num = 0 THEN NaN ELSE Infinity(Sign(a)))
  ELSE Fin(a.num * b.den, a.den * b.num)

(* Math.max: NaN when an argument is NaN *)
JsMax(a, b) ==
  IF a.k = "nan" \/ b.k = "nan" THEN NaN
  ELSE IF JsLess(a, b) THEN b ELSE a

---------------------------------------------------------------------------
(* createScatterplotData and its calculateTrendLine *)

ScatterDataAnySignal(processed) ==
  LET Point(p) == [x |-> p.storyPoints.n, y |-> p.timeSpentHours, label |-> p.key]
  IN Map(Filter(processed, HasSignal), Point)

ScatterData(processed) ==
  LET Point(p) == [x |-> p.storyPoints.n, y |-> p.timeSpentHours, label |-> p.key]
  IN Map(Filter(processed, HasBothFields), Point)

SetMin(S) == CHOOSE x \in S : \A y \in S : x <= y

SetMax(S) == CHOOSE x \in S : \A y \in S : x >= y

SlopeThroughOrigin(n, sumX, sumY, sumXY, sumXX) == JsDiv(Whole(sumXY), Whole(sumXX))

Slope(n, sumX, sumY, sumXY, sumXX) ==
  JsDiv(Whole(n * sumXY - sumX * sumY), Whole(n * sumXX - sumX * sumX))

Intercept(n, sumX, sumY, slope) ==
  JsDiv(JsSub(Whole(sumY), JsMul(slope, Whole(sumX))), Whole(n))

calculateTrendLine(data) ==
  IF Len(data) < 2 THEN [points |-> <<>>, slope |-> Whole(0), intercept |-> Whole(0)]
  ELSE
    LET X(pt) == pt.x
        Y(pt) == pt.y
        XY(pt) == pt.x * pt.y
        XX(pt) == pt.x * pt.x
        n == Len(data)
        sumX == SumSeq(Map(data, X))
        sumY == SumSeq(Map(data, Y))
        sumXY == SumSeq(Map(data, XY))
        sumXX == SumSeq(Map(data, XX))
        slope == Slope(n, sumX, sumY, sumXY, sumXX)
        intercept == Intercept(n, sumX, sumY, slope)
        xs == Range(Map(data, X))
        minX == SetMin(xs)
        maxX == SetMax(xs)
        range == IF maxX - minX # 0 THEN maxX - minX ELSE 1
        pad == Fin(range, 10)
        extMin == JsMax(Whole(0), JsSub(Whole(minX), pad))
        extMax == JsAdd(Whole(maxX), pad)
        Fitted(x) == JsMax(Whole(0), JsAdd(JsMul(slope, x), intercept))
    IN [points |-> <<[x |-> extMin, y |-> Fitted(extMin)],
                     [x |-> extMax, y |-> Fitted(extMax)]>>,
        slope |-> slope, intercept |-> intercept]

ScatterplotDataOf(processedIssues) ==
  LET scatterData == ScatterData(processedIssues)
      trendCalc == calculateTrendLine(scatterData)
      trendLineData == trendCalc.points
      datasets == IF Len(trendLineData) > 0
                  THEN <<[label |-> "Story Points vs Actual Hours Logged"],
                         [label |-> "Trend Line"]>>
                  ELSE <<[label |-> "Story Points vs Actual Hours Logged"]>>
  IN [scatterData |-> scatterData, trendLineData |-> trendLineData,
      datasets |-> datasets,
      trend |-> [slope |-> trendCalc.slope, intercept |-> trendCalc.intercept]]

createScatterplotData(iss, tf, now, cutoffDate) ==
  ScatterplotDataOf(processIssuesForCharts(iss, tf, now, cutoffDate))

---------------------------------------------------------------------------
(* createHistogramData *)

(* bucket bounds in hours; the last bucket has max: Infinity *)
Buckets ==
  <<[min |-> 0, max |-> 5, bounded |-> TRUE],
    [min |-> 5, max |-> 10, bounded |-> TRUE],
    [min |-> 10, max |-> 20, bounded |-> TRUE],
    [min |-> 20, max |-> 40, bounded |-> TRUE],
    [min |-> 40, max |-> 40, bounded |-> FALSE]>>

InBucketUpperInclusive(hours, bucket) ==
  /\ hours > bucket.min * HourUnit
  /\ (bucket.bounded => hours <= bucket.max * HourUnit)

InBucket(hours, bucket) ==
  /\ hours >= bucket.min * HourUnit
  /\ (bucket.bounded => hours < bucket.max * HourUnit)

BucketCounts(records) ==
  LET Count(bucket) ==
        LET Here(p) == InBucket(p.timeSpentHours, bucket)
        IN Len(Filter(records, Here))
  IN Map(Buckets, Count)

UniqueStoryPoints(issuesWithBothFields) ==
  SetToSortedSeq({p.storyPoints.n : p \in Range(issuesWithBothFields)})

IssuesWithoutSP(processed) ==
  LET NoSP(p) == p.timeSpentHours > 0 /\ StrictEqualsZero(p.storyPoints)
  IN Filter(processed, NoSP)

HasData(dataset) == \E j \in 1..Len(dataset.data) : dataset.data[j] > 0

HistogramDataOf(processedIssues) ==
  LET issuesWithBothFields == Filter(processedIssues, HasBothFields)
      uniqueStoryPoints == UniqueStoryPoints(issuesWithBothFields)
      Dataset(storyPoint) ==
        LET ThisSP(p) == p.storyPoints.n = storyPoint
        IN [noStoryPoints |-> FALSE, storyPoint |-> storyPoint,
            data |-> BucketCounts(Filter(issuesWithBothFields, ThisSP))]
      issuesWithoutSP == IssuesWithoutSP(processedIssues)
      datasets ==
        Map(uniqueStoryPoints, Dataset) \o
          (IF Len(issuesWithoutSP) > 0
           THEN <<[noStoryPoints |-> TRUE, storyPoint |-> 0,
                   data |-> BucketCounts(issuesWithoutSP)]>>
           ELSE <<>>)
  IN [labels |-> Buckets, datasets |-> Filter(datasets, HasData)]

createHistogramData(iss, tf, now, cutoffDate) ==
  HistogramDataOf(processIssuesForCharts(iss, tf, now, cutoffDate))

---------------------------------------------------------------------------
(* The component: state, clock reads and the calls of a render pass *)

(* instants at which the calendar arithmetic carries: a month end in a leap
   year at hour 0, a month end at hour 23, the first hour of a year, and a
   plain day *)
ClockValues ==
  {At(2024, 2, 31, 0), At(2024, 4, 31, 23), At(2025, 0, 1, 0), At(2024, 5, 15, 12)}

MaxClockTicks == 1

GraphTypes == {"boxplot", "scatterplot", "histogram"}

Functions == {"filter", "boxplot", "scatter", "histogram", "render"}

NoRead == [done |-> FALSE, now |-> 0, cutoffDate |-> 0]

Read(now, cutoffDate) == [done |-> TRUE, now |-> now, cutoffDate |-> cutoffDate]

(* the second new Date() is read at the same instant as the first or later;
   the clock of the model runs at most MaxClockTicks hours past its start *)
ClockReads(tf, c) ==
  IF tf = "all" THEN {c}
  ELSE {c} \cup {c + 1 : start \in {v \in ClockValues : v <= c /\ c < v + MaxClockTicks}}

EmptyBoxplot ==
  [labels |-> <<>>, boxplotStats |-> <<>>, storyPointGroups |-> <<>>,
   datasets |-> <<<<>>, <<>>, <<>>, <<>>>>]

EmptyScatter ==
  [scatterData |-> <<>>, trendLineData |-> <<>>, datasets |-> <<>>,
   trend |-> [slope |-> Whole(0), intercept |-> Whole(0)]]

EmptyHistogram == [labels |-> Buckets, datasets |-> <<>>]

(* Arrays and in-place writes.  Array.prototype.push and sort change the
   array they are called on; filter, map, slice, Object.keys and the spread
   of a Set make a new one.  InPlaceWrites names, per function, the local
   arrays the function pushes to or sorts. *)
InPlaceWritesSortingFiltered(fn) ==
  IF fn = "processIssuesForCharts" THEN {"filteredIssues"} ELSE {}

InPlaceWrites(fn) ==
  CASE fn = "createBoxplotData" -> {"storyPointGroups", "labels"}
    [] fn = "createScatterplotData" -> {"datasets"}
    [] fn = "createHistogramData" -> {"uniqueStoryPoints", "datasets"}
    [] OTHER -> {}

(* the functions a call runs: every create function starts with
   processIssuesForCharts, which starts with filterIssuesByTime *)
Callees(fn) ==
  CASE fn = "filterIssuesByTime" -> {"filterIssuesByTime"}
    [] fn = "processIssuesForCharts" -> {"filterIssuesByTime", "processIssuesForCharts"}
    [] fn = "renderRealChart" ->
         {"filterIssuesByTime", "processIssuesForCharts", "renderRealChart"}
    [] OTHER -> {"filterIssuesByTime", "processIssuesForCharts", fn}

(* the array a local name denotes: filterIssuesByTime returns its argument
   itself for "all" and for a window it does not know, so filteredIssues is
   then the issues array of the component state *)
ArrayOf(name, tf) ==
  IF name = "filteredIssues" /\ tf \notin {"1h", "1d", "1w", "1m", "3m"}
  THEN "issues"
  ELSE name

(* the issues array after the calls fns: a sort that reached it would
   reorder it *)
IssuesAfter(iss, fns, tf) ==
  IF \E fn \in fns : \E callee \in Callees(fn) : \E name \in InPlaceWrites(callee) :
       ArrayOf(name, tf) = "issues"
  THEN Reverse(iss)
  ELSE iss

(* line 1321: const filteredIssues = filterIssuesByTime(issues, timeFilter) *)
RenderFilteredIssues ==
  \E cutoffDate \in ClockReads(timeFilter, clock) :
    /\ filteredIssues' = filterIssuesByTime(issues, timeFilter, clock, cutoffDate)
    /\ reads' = [reads EXCEPT !["filter"] = Read(clock, cutoffDate)]
    /\ clock' = cutoffDate
    /\ UNCHANGED <<jiraVars, scriptVars, dashboardVars>>
    /\ issues' = IssuesAfter(issues, {"filterIssuesByTime"}, timeFilter)
    /\ UNCHANGED <<timeFilter, boxplot, scatter, histogram, renderIssues, rendered>>

CreateBoxplotData ==
  \E cutoffDate \in ClockReads(timeFilter, clock) :
    /\ boxplot' = createBoxplotData(issues, timeFilter, clock, cutoffDate)
    /\ reads' = [reads EXCEPT !["boxplot"] = Read(clock, cutoffDate)]
    /\ clock' = cutoffDate
    /\ UNCHANGED <<jiraVars, scriptVars, dashboardVars>>
    /\ issues' = IssuesAfter(issues, {"createBoxplotData"}, timeFilter)
    /\ UNCHANGED <<timeFilter, filteredIssues, scatter, histogram, renderIssues, rendered>>

CreateScatterplotData ==
  \E cutoffDate \in ClockReads(timeFilter, clock) :
    /\ scatter' = createScatterplotData(issues, timeFilter, clock, cutoffDate)
    /\ reads' = [reads EXCEPT !["scatter"] = Read(clock, cutoffDate)]
    /\ clock' = cutoffDate
    /\ UNCHANGED <<jiraVars, scriptVars, dashboardVars>>
    /\ issues' = IssuesAfter(issues, {"createScatterplotData"}, timeFilter)
    /\ UNCHANGED <<timeFilter, filteredIssues, boxplot, histogram, renderIssues, rendered>>

CreateHistogramData ==
  \E cutoffDate \in ClockReads(timeFilter, clock) :
    /\ histogram' = createHistogramData(issues, timeFilter, clock, cutoffDate)
    /\ reads' = [reads EXCEPT !["histogram"] = Read(clock, cutoffDate)]
    /\ clock' = cutoffDate
    /\ UNCHANGED <<jiraVars, scriptVars, dashboardVars>>
    /\ issues' = IssuesAfter(issues, {"createHistogramData"}, timeFilter)
    /\ UNCHANGED <<timeFilter, filteredIssues, boxplot, scatter, renderIssues, rendered>>

RenderedViewAlwaysChart(processed) == "chart"

(* what renderRealChart returns: the "No data available" placeholder, or the chart *)
RenderedView(processed) == IF Len(processed) = 0 THEN "placeholder" ELSE "chart"

(* renderRealChart(title, description, graphType), whose local processedIssues
   is renderIssues: processIssuesForCharts reads the clock, and the create function of the graph type reads it again *)
RenderRealChart ==
  \E cutoffDate \in ClockReads(timeFilter, clock) :
    \E graphType \in GraphTypes :
      LET processed == processIssuesForCharts(issues, timeFilter, clock, cutoffDate)
      IN /\ renderIssues' = processed
         /\ UNCHANGED <<jiraVars, scriptVars, dashboardVars>>
         /\ rendered' = [rendered EXCEPT ![graphType] = RenderedView(processed)]
         /\ UNCHANGED <<timeFilter, filteredIssues>>
         /\ IF RenderedView(processed) = "placeholder"
            THEN /\ issues' = IssuesAfter(issues, {"renderRealChart"}, timeFilter)
                 /\ reads' = [reads EXCEPT !["render"] = Read(clock, cutoffDate)]
                 /\ clock' = cutoffDate
                 /\ UNCHANGED <<boxplot, scatter, histogram>>
            ELSE \E now2 \in ClockReads(timeFilter, cutoffDate) :
                   \E cutoffDate2 \in ClockReads(timeFilter, now2) :
                     /\ clock' = cutoffDate2
                     /\ CASE graphType = "boxplot" ->
                               /\ boxplot' = createBoxplotData(issues, timeFilter, now2, cutoffDate2)
                               /\ issues' = IssuesAfter(issues, {"renderRealChart", "createBoxplotData"}, timeFilter)
                               /\ reads' = [reads EXCEPT !["render"] = Read(clock, cutoffDate),
                                                         !["boxplot"] = Read(now2, cutoffDate2)]
                               /\ UNCHANGED <<scatter, histogram>>
                          [] graphType = "scatterplot" ->
                               /\ scatter' = createScatterplotData(issues, timeFilter, now2, cutoffDate2)
                               /\ issues' = IssuesAfter(issues, {"renderRealChart", "createScatterplotData"}, timeFilter)
                               /\ reads' = [reads EXCEPT !["render"] = Read(clock, cutoffDate),
                                                         !["scatter"] = Read(now2, cutoffDate2)]
                               /\ UNCHANGED <<boxplot, histogram>>
                          [] graphType = "histogram" ->
                               /\ histogram' = createHistogramData(issues, timeFilter, now2, cutoffDate2)
                               /\ issues' = IssuesAfter(issues, {"renderRealChart", "createHistogramData"}, timeFilter)
                               /\ reads' = [reads EXCEPT !["render"] = Read(clock, cutoffDate),
                                                         !["histogram"] = Read(now2, cutoffDate2)]
                               /\ UNCHANGED <<boxplot, scatter>>

---------------------------------------------------------------------------
(* JiraApiService (src/src/services/jiraApi.ts, second version of the file).
   A field that is null holds Null; a field that holds the value v holds
   <<v>>.  A URL is the sequence of its host and, when it ends with one, the
   trailing "/".  JavaScript runs one callback at a time: a step of the model
   is the code between two awaits. *)

Null == <<>>

Value(v) == <<v>>

MaxCallbacks == 2

MaxRequests == 4

BaseUrls == {<<"a.atlassian.net">>, <<"b.atlassian.net">>}

Configs ==
  [baseUrl : BaseUrls \cup {<<"a.atlassian.net", "/">>},
   clientId : {"client", ""}, clientSecret : {"secret", ""}, redirectUri : {"uri"}]

Codes == {"code"}

Tokens == {"token-1", "token-2"}

(* the state parameter of the redirect: btoa(JSON.stringify({baseUrl})), or
   text that atob or JSON.parse rejects *)
EncodeState(url) == [base64 |-> [baseUrl |-> url]]

Malformed == [base64 |-> [garbage |-> TRUE]]

StateParams == {EncodeState(url) : url \in BaseUrls} \cup {Malformed}

Parses(state) == "baseUrl" \in DOMAIN state.base64

StripTrailingSlash(url) ==
  IF url[Len(url)] = "/" THEN SubSeq(url, 1, Len(url) - 1) ELSE url

NotFoundError == "OAuth state not found. Please try logging in again."

MismatchError == "OAuth state mismatch. Possible security issue."

NotAuthenticatedError == "Not authenticated. Please login first."

Outcome(op, result) == [op |-> op, result |-> result]

Sent == sent.token + sent.resources + sent.api

isAuthenticated == api # Null /\ accessToken # Null

getBaseUrl == baseUrl

getAccessToken == accessToken

InitJira ==
  /\ api = Null
  /\ accessToken = Null
  /\ baseUrl = Null
  /\ clientId = Null
  /\ clientSecret = Null
  /\ sessionStorage = Null
  /\ callbacks = {}
  /\ sent = [token |-> 0, resources |-> 0, api |-> 0]
  /\ outcome = Outcome("new", "constructed")
  /\ loggedOut = FALSE

(* cleanup() *)
Cleanup ==
  /\ api' = Null
  /\ accessToken' = Null
  /\ baseUrl' = Null
  /\ clientId' = Null
  /\ clientSecret' = Null

(* the catch block of handleOAuthCallback *)
CallbackFails(message) ==
  /\ sessionStorage' = Null
  /\ Cleanup
  /\ outcome' = Outcome("handleOAuthCallback", message)

GetAuthorizationUrl ==
  \E config \in Configs :
    /\ baseUrl' = Value(StripTrailingSlash(config.baseUrl))
    /\ clientId' = Value(config.clientId)
    /\ clientSecret' = Value(config.clientSecret)
    /\ sessionStorage' =
         Value([baseUrl |-> StripTrailingSlash(config.baseUrl), clientId |-> config.clientId,
                clientSecret |-> config.clientSecret, redirectUri |-> config.redirectUri])
    /\ outcome' = Outcome("getAuthorizationUrl", "url")
    /\ UNCHANGED <<api, accessToken, callbacks, sent, loggedOut>>
    /\ UNCHANGED <<chartVars, scriptVars, dashboardVars>>

StateMatchesAlways(stateData, oauthState) == TRUE

(* line 586: stateData.baseUrl !== oauthState.baseUrl *)
StateMatches(stateData, oauthState) == stateData.baseUrl = oauthState.baseUrl

FreeId == CHOOSE id \in 1..MaxCallbacks : \A cb \in callbacks : cb.id # id

Waiting(cb, place) == [cb EXCEPT !.at = place]

(* handleOAuthCallback(code, state) up to its first await, the fetch of
   exchangeCodeForToken: every throw before it lands in the catch block *)
HandleOAuthCallback(code, state) ==
  /\ Cardinality(callbacks) < MaxCallbacks
  /\ loggedOut' = FALSE
  /\ UNCHANGED <<chartVars, scriptVars, dashboardVars>>
  /\ IF sessionStorage = Null
     THEN CallbackFails(NotFoundError) /\ UNCHANGED <<callbacks, sent>>
     ELSE IF ~Parses(state)
     THEN CallbackFails("SyntaxError") /\ UNCHANGED <<callbacks, sent>>
     ELSE IF ~StateMatches(state.base64, sessionStorage[1])
     THEN CallbackFails(MismatchError) /\ UNCHANGED <<callbacks, sent>>
     ELSE IF sessionStorage[1].clientId = ""
     THEN CallbackFails("Client ID not set") /\ UNCHANGED <<callbacks, sent>>
     ELSE IF sessionStorage[1].clientSecret = ""
     THEN CallbackFails("Client Secret not set") /\ UNCHANGED <<callbacks, sent>>
     ELSE /\ Sent < MaxRequests
          /\ baseUrl' = Value(sessionStorage[1].baseUrl)
          /\ clientId' = Value(sessionStorage[1].clientId)
          /\ clientSecret' = Value(sessionStorage[1].clientSecret)
          /\ sent' = [sent EXCEPT !.token = @ + 1]
          /\ callbacks' = callbacks \cup {[id |-> FreeId, at |-> "token", code |-> code]}
          /\ UNCHANGED <<api, accessToken, sessionStorage, outcome>>

StartCallback == \E code \in Codes : \E state \in StateParams : HandleOAuthCallback(code, state)

(* the token endpoint answers: this.accessToken is set and
   getAccessibleResources sends its request *)
TokenResponse ==
  \E cb \in callbacks : \E response \in {"error"} \cup Tokens :
    /\ cb.at = "token"
    /\ UNCHANGED <<loggedOut, chartVars, scriptVars, dashboardVars>>
    /\ IF response = "error"
       THEN /\ CallbackFails("Token exchange failed")
            /\ callbacks' = callbacks \ {cb}
            /\ UNCHANGED sent
       ELSE /\ accessToken' = Value(response)
            /\ sent' = [sent EXCEPT !.resources = @ + 1]
            /\ callbacks' = (callbacks \ {cb}) \cup {Waiting(cb, "resources")}
            /\ UNCHANGED <<api, baseUrl, clientId, clientSecret, sessionStorage, outcome>>

(* accessible-resources answers: axios.create with the Bearer header of
   this.accessToken as it is now, and getCurrentUser sends GET /myself *)
ResourcesResponse ==
  \E cb \in callbacks : \E response \in {"error", "no sites", "sites"} :
    /\ cb.at = "resources"
    /\ UNCHANGED <<loggedOut, chartVars, scriptVars, dashboardVars>>
    /\ IF response # "sites"
       THEN /\ CallbackFails(response)
            /\ callbacks' = callbacks \ {cb}
            /\ UNCHANGED sent
       ELSE /\ api' = Value([authorization |-> accessToken])
            /\ sent' = [sent EXCEPT !.api = @ + 1]
            /\ callbacks' = (callbacks \ {cb}) \cup {Waiting(cb, "user")}
            /\ UNCHANGED <<accessToken, baseUrl, clientId, clientSecret, sessionStorage, outcome>>

(* GET /myself answers; getCurrentUser turns an error into null *)
UserResponse ==
  \E cb \in callbacks : \E response \in {"error", "user"} :
    /\ cb.at = "user"
    /\ callbacks' = callbacks \ {cb}
    /\ UNCHANGED <<sent, loggedOut, chartVars, scriptVars, dashboardVars>>
    /\ IF response = "error"
       THEN CallbackFails("Failed to get user information after authentication")
       ELSE /\ sessionStorage' = Null
            /\ outcome' = Outcome("handleOAuthCallback", "user")
            /\ UNCHANGED <<api, accessToken, baseUrl, clientId, clientSecret>>

Logout ==
  /\ sessionStorage' = Null
  /\ Cleanup
  /\ loggedOut' = TRUE
  /\ outcome' = Outcome("logout", "void")
  /\ UNCHANGED <<callbacks, sent, chartVars, scriptVars, dashboardVars>>

ApiOperations == {"getProjects", "getIssues", "getCurrentUser"}

(* getProjects, getIssues, getCurrentUser up to their await *)
ApiCall(op) ==
  /\ UNCHANGED <<api, accessToken, baseUrl, clientId, clientSecret, sessionStorage,
                 callbacks, loggedOut, chartVars, scriptVars, dashboardVars>>
  /\ IF api = Null
     THEN outcome' = Outcome(op, NotAuthenticatedError) /\ UNCHANGED sent
     ELSE /\ Sent < MaxRequests
          /\ sent' = [sent EXCEPT !.api = @ + 1]
          /\ outcome' = Outcome(op, "request sent")

CallApi == \E op \in ApiOperations : ApiCall(op)

---------------------------------------------------------------------------
(* quick-update.sh (src/unnamed/part_001, lines 1-353).  The script runs
   under set -e: a simple command that fails ends the script with the
   command's status, unless it is the test of an if, part of a || list, or
   hidden by local.  What the environment answers (a tool missing, aws or
   terraform failing) is chosen at the step that asks. *)

Options == {"--skip-build", "--skip-invalidation", "--dry-run", "--help", "--verbose"}

MaxArgs == 3

(* exit statuses of a failing aws or terraform command: any but 0 *)
ToolFailures == {1, 254}

InitScript ==
  /\ args = <<>>
  /\ SKIP_BUILD = FALSE
  /\ SKIP_INVALIDATION = FALSE
  /\ DRY_RUN = FALSE
  /\ step = "not started"
  /\ s3 = {}
  /\ invalidations = 0
  /\ printed = {}
  /\ exitStatus = Null

Exit(status) ==
  /\ step' = "exited"
  /\ exitStatus' = Value(status)

Continue(next) ==
  /\ step' = next
  /\ UNCHANGED exitStatus

UnchangedFlags == UNCHANGED <<SKIP_BUILD, SKIP_INVALIDATION, DRY_RUN>>

UnchangedRemote == UNCHANGED <<s3, invalidations>>

OtherPrograms == UNCHANGED <<chartVars, jiraVars, dashboardVars>>

(* one turn of the while loop of main over "$@" *)
ParseArgument ==
  /\ step = "parse"
  /\ args # <<>>
  /\ UnchangedRemote
  /\ OtherPrograms
  /\ CASE Head(args) = "--skip-build" ->
            /\ SKIP_BUILD' = TRUE
            /\ args' = Tail(args)
            /\ UNCHANGED <<SKIP_INVALIDATION, DRY_RUN, printed, step, exitStatus>>
       [] Head(args) = "--skip-invalidation" ->
            /\ SKIP_INVALIDATION' = TRUE
            /\ args' = Tail(args)
            /\ UNCHANGED <<SKIP_BUILD, DRY_RUN, printed, step, exitStatus>>
       [] Head(args) = "--dry-run" ->
            /\ DRY_RUN' = TRUE
            /\ args' = Tail(args)
            /\ UNCHANGED <<SKIP_BUILD, SKIP_INVALIDATION, printed, step, exitStatus>>
       [] Head(args) = "--help" ->
            /\ printed' = printed \cup {"Usage"}
            /\ Exit(0)
            /\ UNCHANGED args
            /\ UnchangedFlags
       [] OTHER ->
            /\ printed' = printed \cup {"Unknown option"}
            /\ Exit(1)
            /\ UNCHANGED args
            /\ UnchangedFlags

(* lines 303-316: the warnings shown once the arguments are parsed *)
ShowWarnings ==
  /\ step = "parse"
  /\ args = <<>>
  /\ printed' = printed \cup (IF DRY_RUN THEN {"DRY RUN MODE - No files will be uploaded"} ELSE {})
  /\ Continue("check_requirements")
  /\ UNCHANGED args
  /\ UnchangedFlags
  /\ UnchangedRemote
  /\ OtherPrograms

(* a step that only asks the environment: either it goes on to next, or it
   prints an error and the script exits with status *)
Check(here, next, messages, statuses) ==
  /\ step = here
  /\ UNCHANGED args
  /\ UnchangedFlags
  /\ UnchangedRemote
  /\ OtherPrograms
  /\ \/ /\ Continue(next)
        /\ printed' = printed \cup messages
     \/ /\ \E status \in statuses : Exit(status)
        /\ UNCHANGED printed

CheckRequirements ==
  Check("check_requirements", "check_aws_credentials", {"All requirements met"}, {1})

(* the second aws sts call is an assignment from a command substitution *)
CheckAwsCredentials ==
  Check("check_aws_credentials", IF SKIP_BUILD THEN "check_dist" ELSE "build_frontend",
        {"Authenticated as"}, {1} \cup ToolFailures)

BuildFrontend ==
  Check("build_frontend", "get_terraform_outputs", {"Frontend built successfully"}, {1})

(* lines 324-329: with --skip-build, dist/ must exist *)
CheckDist ==
  Check("check_dist", "get_terraform_outputs", {}, {1})

AfterTerraformOutputsAlwaysDeploys(dryRun) == "deploy_to_s3"

(* lines 333-339: the dry-run branch of main ends the script before deploy_to_s3 *)
AfterTerraformOutputs(dryRun) == IF dryRun THEN "dry_run" ELSE "deploy_to_s3"

(* a failing terraform output is an assignment from a command substitution *)
GetTerraformOutputs ==
  Check("get_terraform_outputs", AfterTerraformOutputs(DRY_RUN), {"Deployment target"}, {1})

DryRunMessages ==
  {"DRY RUN: Would upload files", "DRY RUN: Would invalidate CloudFront distribution",
   "Dry run complete. Use without --dry-run to actually deploy."}

DryRun ==
  /\ step = "dry_run"
  /\ printed' = printed \cup DryRunMessages
  /\ Exit(0)
  /\ UNCHANGED args
  /\ UnchangedFlags
  /\ UnchangedRemote
  /\ OtherPrograms

(* deploy_to_s3: the two aws s3 sync commands end in || true; aws s3 cp
   does not, and its failure ends the script *)
DeployToS3 ==
  /\ step = "deploy_to_s3"
  /\ UNCHANGED <<args, invalidations>>
  /\ UnchangedFlags
  /\ OtherPrograms
  /\ \E assets \in {{}, {"sync assets/"}} :
       \/ /\ s3' = s3 \cup assets \cup {"sync", "cp index.html"}
          /\ printed' = printed \cup {"All files uploaded to S3"}
          /\ Continue(IF SKIP_INVALIDATION THEN "show_summary" ELSE "invalidate_cloudfront")
       \/ /\ s3' = s3 \cup assets \cup {"sync"}
          /\ UNCHANGED printed
          /\ \E status \in ToolFailures : Exit(status)

(* invalidate_cloudfront: INVALIDATION_OUTPUT=$(aws cloudfront
   create-invalidation ...) is a simple command, so under set -e its failure
   ends the script before the test of $? is reached *)
InvalidateCloudfront ==
  /\ step = "invalidate_cloudfront"
  /\ UNCHANGED <<args, s3>>
  /\ UnchangedFlags
  /\ OtherPrograms
  /\ \/ /\ invalidations' = invalidations + 1
        /\ printed' = printed \cup {"Invalidating CloudFront cache...",
                                    "CloudFront invalidation created"}
        /\ Continue("show_summary")
     \/ /\ UNCHANGED invalidations
        /\ printed' = printed \cup {"Invalidating CloudFront cache..."}
        /\ \E status \in ToolFailures : Exit(status)

ShowSummary ==
  /\ step = "show_summary"
  /\ printed' = printed \cup {"Quick Update Complete!"}
  /\ Exit(0)
  /\ UNCHANGED args
  /\ UnchangedFlags
  /\ UnchangedRemote
  /\ OtherPrograms

---------------------------------------------------------------------------
(* Inputs *)

SeqsUpTo(S, n) == UNION {[1..k -> S] : k \in 0..n}

StoryPointsField == "customfield_10016"

(* an issue whose story points sit in customfield_10016 and whose time is in timespent *)
MkIssue(sp, seconds, updated) ==
  [custom |-> <<[field |-> StoryPointsField, value |-> Num(sp)]>>,
   timespent |-> Num(seconds), timeSpentSeconds |-> Undefined, worklogs |-> <<>>,
   updated |-> updated]

(* the issues of a search response: the key of an issue is its position *)
WithKeys(bundles) ==
  [i \in 1..Len(bundles) |->
     [key |-> i, custom |-> bundles[i].custom, timespent |-> bundles[i].timespent,
      timeSpentSeconds |-> bundles[i].timeSpentSeconds, worklogs |-> bundles[i].worklogs,
      updated |-> bundles[i].updated]]

Noon == At(2024, 5, 15, 12)

Hour == SecondsPerHour

---------------------------------------------------------------------------
(* Dashboard: loadProjects, loadIssues, loadFieldSchema and the project
   select (lines 276-350, 1366-1371).  A request in flight is an async
   function waiting at its await; its answer runs the rest of the function,
   the finally block included.  The state updates of one callback take
   effect together. *)

ProjectKeys == {"ALPHA", "BETA"}

(* what the search of a project returns *)
ProjectIssues(projectKey) ==
  IF projectKey = "ALPHA"
  THEN WithKeys(<<MkIssue(1, 1 * Hour, ValidDate(Noon))>>)
  ELSE WithKeys(<<MkIssue(2, 3 * Hour, ValidDate(Noon)), MkIssue(3, 5 * Hour, ValidDate(Noon))>>)

(* projectsData.sort by name *)
SortedProjects == <<"ALPHA", "BETA">>

MaxInFlight == 3

chartOutputs ==
  <<timeFilter, clock, filteredIssues, boxplot, scatter, histogram, reads,
    renderIssues, rendered>>

InitDashboard ==
  /\ mounted = FALSE
  /\ projects = <<>>
  /\ selectedProject = ""
  /\ loading = FALSE
  /\ error = ""
  /\ inFlight = {}

Request(kind, projectKey) ==
  [id |-> CHOOSE id \in 1..MaxInFlight : \A r \in inFlight : r.id # id,
   kind |-> kind, projectKey |-> projectKey]

(* useEffect(() => { loadProjects(); }, []) up to the await *)
Mount ==
  /\ ~mounted
  /\ mounted' = TRUE
  /\ loading' = TRUE
  /\ inFlight' = inFlight \cup {Request("loadProjects", "")}
  /\ UNCHANGED <<projects, selectedProject, error, issues, chartOutputs, jiraVars, scriptVars>>

(* the "View Field Schema" button, which loading does not disable *)
LoadFieldSchema ==
  /\ mounted
  /\ Cardinality(inFlight) < MaxInFlight
  /\ loading' = TRUE
  /\ inFlight' = inFlight \cup {Request("loadFieldSchema", "")}
  /\ UNCHANGED <<mounted, projects, selectedProject, error, issues, chartOutputs,
                 jiraVars, scriptVars>>

(* handleProjectChange: the select is disabled while loading and offers ""
   and the loaded projects *)
HandleProjectChange ==
  \E projectKey \in {""} \cup ProjectKeys :
    /\ mounted
    /\ ~loading
    /\ projectKey # selectedProject
    /\ projectKey = "" \/ \E i \in 1..Len(projects) : projects[i] = projectKey
    /\ selectedProject' = projectKey
    /\ UNCHANGED <<mounted, projects, chartOutputs, jiraVars, scriptVars>>
    /\ IF projectKey # ""
       THEN /\ Cardinality(inFlight) < MaxInFlight
            /\ loading' = TRUE
            /\ error' = ""
            /\ inFlight' = inFlight \cup {Request("loadIssues", projectKey)}
            /\ UNCHANGED issues
       ELSE /\ issues' = <<>>
            /\ UNCHANGED <<loading, error, inFlight>>

(* the rest of an async load function: try or catch, then finally *)
Response ==
  \E request \in inFlight : \E ok \in BOOLEAN :
    /\ inFlight' = inFlight \ {request}
    /\ loading' = FALSE
    /\ UNCHANGED <<mounted, selectedProject, chartOutputs, jiraVars, scriptVars>>
    /\ CASE request.kind = "loadProjects" ->
              /\ projects' = IF ok THEN SortedProjects ELSE projects
              /\ error' = IF ok THEN error ELSE "Failed to load projects"
              /\ UNCHANGED issues
         [] request.kind = "loadIssues" ->
              /\ issues' = IF ok THEN ProjectIssues(request.projectKey) ELSE issues
              /\ error' = IF ok THEN error ELSE "Failed to load issues"
              /\ UNCHANGED projects
         [] request.kind = "loadFieldSchema" ->
              /\ error' = IF ok THEN error ELSE "Failed to load field schema"
              /\ UNCHANGED <<projects, issues>>

BoxPool ==
  {MkIssue(1, 1 * Hour, ValidDate(Noon)), MkIssue(1, 9 * Hour, ValidDate(Noon)),
   MkIssue(1, 10 * Hour, ValidDate(Noon)), MkIssue(2, 10 * Hour, ValidDate(Noon)),
   MkIssue(0, 1 * Hour, ValidDate(Noon)), MkIssue(2, 0, ValidDate(Noon))}

MaxBoxIssues == 5

InitChartOutputs ==
  /\ filteredIssues = <<>>
  /\ boxplot = EmptyBoxplot
  /\ scatter = EmptyScatter
  /\ histogram = EmptyHistogram
  /\ reads = [f \in Functions |-> NoRead]
  /\ renderIssues = <<>>
  /\ rendered = [graphType \in GraphTypes |-> "nothing"]

(* the chart specifications leave the service, the script and the loading
   state of the component at rest *)
InitOutputs ==
  /\ InitChartOutputs
  /\ InitJira
  /\ InitScript
  /\ InitDashboard

(* no issues loaded, no chart computed *)
InitCharts ==
  /\ issues = <<>>
  /\ timeFilter = "all"
  /\ clock = Noon
  /\ InitChartOutputs

(* the service from its construction on, under any order of calls and answers *)
InitService ==
  /\ InitJira
  /\ InitCharts
  /\ InitScript
  /\ InitDashboard

NextService ==
  \/ GetAuthorizationUrl
  \/ StartCallback
  \/ TokenResponse
  \/ ResourcesResponse
  \/ UserResponse
  \/ Logout
  \/ CallApi

SpecService == InitService /\ [][NextService]_vars

(* a run of quick-update.sh with up to MaxArgs arguments *)
InitQuickUpdate ==
  /\ args \in SeqsUpTo(Options, MaxArgs)
  /\ SKIP_BUILD = FALSE
  /\ SKIP_INVALIDATION = FALSE
  /\ DRY_RUN = FALSE
  /\ step = "parse"
  /\ s3 = {}
  /\ invalidations = 0
  /\ printed = {}
  /\ exitStatus = Null
  /\ InitJira
  /\ InitCharts
  /\ InitDashboard

NextQuickUpdate ==
  \/ ParseArgument
  \/ ShowWarnings
  \/ CheckRequirements
  \/ CheckAwsCredentials
  \/ BuildFrontend
  \/ CheckDist
  \/ GetTerraformOutputs
  \/ DryRun
  \/ DeployToS3
  \/ InvalidateCloudfront
  \/ ShowSummary

SpecQuickUpdate == InitQuickUpdate /\ [][NextQuickUpdate]_vars

(* the Dashboard from its first render on *)
InitLoading ==
  /\ InitDashboard
  /\ InitCharts
  /\ InitJira
  /\ InitScript

NextLoading ==
  \/ Mount
  \/ LoadFieldSchema
  \/ HandleProjectChange
  \/ Response

SpecLoading == InitLoading /\ [][NextLoading]_vars

InitBoxplot ==
  /\ issues \in {WithKeys(b) : b \in SeqsUpTo(BoxPool, MaxBoxIssues)}
  /\ timeFilter = "all"
  /\ clock = Noon
  /\ InitOutputs

NextBoxplot == CreateBoxplotData

SpecBoxplot == InitBoxplot /\ [][NextBoxplot]_vars

(* estimates that are positive, zero and negative; hours in the first, second
   and last bucket and on a bucket boundary *)
HistPool ==
  {MkIssue(1, 1 * Hour, ValidDate(Noon)), MkIssue(1, 5 * Hour, ValidDate(Noon)),
   MkIssue(2, 40 * Hour, ValidDate(Noon)), MkIssue(0, 20 * Hour, ValidDate(Noon)),
   MkIssue(2, 10 * Hour, ValidDate(Noon)),
   MkIssue(-1, 1 * Hour, ValidDate(Noon)), MkIssue(1, 0, ValidDate(Noon)),
   MkIssue(0, 0, ValidDate(Noon))}

MaxHistIssues == 3

InitHistogram ==
  /\ issues \in {WithKeys(b) : b \in SeqsUpTo(HistPool, MaxHistIssues)}
  /\ timeFilter = "all"
  /\ clock = Noon
  /\ InitOutputs

NextHistogram == CreateHistogramData

SpecHistogram == InitHistogram /\ [][NextHistogram]_vars

ScatterPool ==
  {MkIssue(1, 1 * Hour, ValidDate(Noon)), MkIssue(1, 5 * Hour, ValidDate(Noon)),
   MkIssue(2, 3 * Hour, ValidDate(Noon)), MkIssue(3, 11 * Hour, ValidDate(Noon)),
   MkIssue(0, 1 * Hour, ValidDate(Noon)), MkIssue(2, 0, ValidDate(Noon))}

MaxScatterIssues == 3

InitScatter ==
  /\ issues \in {WithKeys(b) : b \in SeqsUpTo(ScatterPool, MaxScatterIssues)}
  /\ timeFilter = "all"
  /\ clock = Noon
  /\ InitOutputs

NextScatter == CreateScatterplotData

SpecScatter == InitScatter /\ [][NextScatter]_vars

(* points on the line y = 3x + 2, a steeply falling and a steeply rising pair,
   a point off the line and a record without estimate *)
TrendPool ==
  {MkIssue(1, 5 * Hour, ValidDate(Noon)), MkIssue(2, 8 * Hour, ValidDate(Noon)),
   MkIssue(3, 11 * Hour, ValidDate(Noon)), MkIssue(1, 12 * Hour, ValidDate(Noon)),
   MkIssue(2, 1 * Hour, ValidDate(Noon)), MkIssue(1, 1 * Hour, ValidDate(Noon)),
   MkIssue(0, 1 * Hour, ValidDate(Noon))}

MaxTrendIssues == 3

InitTrend ==
  /\ issues \in {WithKeys(b) : b \in SeqsUpTo(TrendPool, MaxTrendIssues)}
  /\ timeFilter = "all"
  /\ clock = Noon
  /\ InitOutputs

NextTrend == CreateScatterplotData

SpecTrend == InitTrend /\ [][NextTrend]_vars

(* issues with an estimate whose three sources of logged time are absent,
   zero, positive or negative in every combination *)
MaxWorklogs == 2

EffortPool ==
  {[custom |-> <<[field |-> StoryPointsField, value |-> Num(1)]>>,
    timespent |-> timespent, timeSpentSeconds |-> timeSpentSeconds,
    worklogs |-> worklogs, updated |-> ValidDate(Noon)] :
     timespent \in {Undefined, Num(0), Num(4 * Hour), Num(-1 * Hour)},
     timeSpentSeconds \in {Undefined, Num(0), Num(2 * Hour)},
     worklogs \in SeqsUpTo({Hour \div 2, (5 * Hour) \div 2}, MaxWorklogs)}

MaxEffortIssues == 1

InitEffort ==
  /\ issues \in {WithKeys(b) : b \in SeqsUpTo(EffortPool, MaxEffortIssues)}
  /\ timeFilter = "all"
  /\ clock = Noon
  /\ InitOutputs

NextEffort == RenderRealChart

SpecEffort == InitEffort /\ [][NextEffort]_vars

(* issues with one hour logged whose fields object enumerates up to MaxFields
   of: two of the known story point fields, two other custom fields and the
   field workratio, in any order, each holding 0, a number inside or outside
   (0, 100], a negative number or a string *)
MaxFields == 2

FieldNames ==
  {"customfield_10016", "customfield_10005", "customfield_10020", "customfield_10001",
   "workratio"}

FieldValues == {Num(0), Num(3), Num(MaxFallbackValue), Num(150), Num(-2), Text}

FieldLists ==
  {fields \in SeqsUpTo([field : FieldNames, value : FieldValues], MaxFields) :
     \A i, j \in 1..Len(fields) : fields[i].field = fields[j].field => i = j}

EstimatePool ==
  {[custom |-> fields, timespent |-> Num(Hour), timeSpentSeconds |-> Undefined,
    worklogs |-> <<>>, updated |-> ValidDate(Noon)] : fields \in FieldLists}

InitEstimate ==
  /\ issues \in {WithKeys(<<b>>) : b \in EstimatePool}
  /\ timeFilter = "all"
  /\ clock = Noon
  /\ InitOutputs

NextEstimate == RenderRealChart

SpecEstimate == InitEstimate /\ [][NextEstimate]_vars

(* ages in hours, around one hour, one day, one week, 28 to 31 days and
   90 to 92 days; a negative age is a timestamp ahead of the clock *)
Ages ==
  {-1, 0, 1, 2, 24, 25, 168, 169, 696, 720, 721, 744, 745,
   2160, 2184, 2208, 2209}

TimePool(c) ==
  {MkIssue(1, 1 * Hour, ValidDate(c - age)) : age \in Ages}
    \cup {MkIssue(1, 1 * Hour, InvalidDate)}

MaxTimeIssues == 2

InitTime ==
  /\ clock \in ClockValues
  /\ issues \in {WithKeys(b) : b \in SeqsUpTo(TimePool(clock), MaxTimeIssues)}
  /\ timeFilter \in TimeFilters
  /\ InitOutputs

NextTime == RenderFilteredIssues

SpecTime == InitTime /\ [][NextTime]_vars

(* the whole pipeline, called again and again on the same issues and window *)
MidnightBefore == At(2024, 4, 31, 23)

RecomputePool ==
  {MkIssue(1, 1 * Hour, ValidDate(MidnightBefore - 1)),
   MkIssue(1, 9 * Hour, ValidDate(MidnightBefore - 30)),
   MkIssue(2, 3 * Hour, ValidDate(MidnightBefore - 200)),
   MkIssue(0, 1 * Hour, ValidDate(MidnightBefore - 1)),
   MkIssue(2, 0, InvalidDate)}

MaxRecomputeIssues == 2

InitRecompute ==
  /\ clock = MidnightBefore
  /\ issues \in {WithKeys(b) : b \in SeqsUpTo(RecomputePool, MaxRecomputeIssues)}
  /\ timeFilter \in TimeFilters
  /\ InitOutputs

NextRecompute ==
  \/ RenderFilteredIssues
  \/ CreateBoxplotData
  \/ CreateScatterplotData
  \/ CreateHistogramData

SpecRecompute == InitRecompute /\ [][NextRecompute]_vars

(* a render pass: renderRealChart for each graph type, next to direct calls of
   the three create functions; records that are recent, older than a day,
   without an updated timestamp, with no signal, and with hours only *)
RenderPool ==
  {MkIssue(1, 1 * Hour, ValidDate(Noon - 1)), MkIssue(2, 3 * Hour, ValidDate(Noon - 100)),
   MkIssue(0, 0, ValidDate(Noon - 1)), MkIssue(-1, -1 * Hour, ValidDate(Noon - 1)),
   MkIssue(0, 1 * Hour, ValidDate(Noon - 1)), MkIssue(2, 5 * Hour, InvalidDate)}

MaxRenderIssues == 2

(* the render pass runs within one hour of the clock: every read gives the
   same instant *)
RenderNow == Noon + MaxClockTicks

InitRender ==
  /\ clock = RenderNow
  /\ issues \in {WithKeys(b) : b \in SeqsUpTo(RenderPool, MaxRenderIssues)}
  /\ timeFilter \in {"all", "1d"}
  /\ InitOutputs

NextRender ==
  \/ RenderRealChart
  \/ CreateBoxplotData
  \/ CreateScatterplotData
  \/ CreateHistogramData

SpecRender == InitRender /\ [][NextRender]_vars

---------------------------------------------------------------------------
(* Properties of createBoxplotData *)

(* the records of the issues list that a call with the given clock reads keeps *)
InWindow(issue, read) ==
  \/ timeFilter = "all"
  \/ DateGeq(issue.updated, CutoffDate(timeFilter, read.now, read.cutoffDate))

BothPositive(issue) ==
  ExtractStoryPoints(issue).n > 0 /\ ExtractTimeSpentHours(issue) > 0

BoxRecords ==
  {i \in 1..Len(issues) : InWindow(issues[i], reads["boxplot"]) /\ BothPositive(issues[i])}

GroupMembers(sp) == {i \in BoxRecords : ExtractStoryPoints(issues[i]).n = sp}

HoursOf(i) == ExtractTimeSpentHours(issues[i])

(* x stands at 0-based index idx of the ascending order of the group's hours *)
AtSortedIndex(sp, idx, x) ==
  /\ Cardinality({i \in GroupMembers(sp) : HoursOf(i) < x}) <= idx
  /\ idx < Cardinality({i \in GroupMembers(sp) : HoursOf(i) <= x})

BoxStats == Range(boxplot.boxplotStats)

(* C1: for every estimate group with n >= 1 hours values, q1, median and q3
   are the elements at indices floor(n/4), floor(n/2) and floor(3n/4) of the
   group's hours in ascending order; for n = 1 all three are the one value. *)
C1_QuartilesNearestRank ==
  reads["boxplot"].done =>
    \A stat \in BoxStats :
      LET n == Cardinality(GroupMembers(stat.label))
      IN /\ n >= 1
         /\ stat.count = n
         /\ AtSortedIndex(stat.label, n \div 4, stat.q1)
         /\ AtSortedIndex(stat.label, n \div 2, stat.median)
         /\ AtSortedIndex(stat.label, (3 * n) \div 4, stat.q3)
         /\ (n = 1 => \A i \in GroupMembers(stat.label) :
                        stat.q1 = HoursOf(i) /\ stat.median = HoursOf(i) /\ stat.q3 = HoursOf(i))

(* a group of four or more with three distinct quartiles, and a group of one *)
C1_Witness ==
  /\ reads["boxplot"].done
  /\ \E stat \in BoxStats : stat.count >= 4 /\ stat.q1 < stat.median /\ stat.median < stat.q3
  /\ \E stat \in BoxStats : stat.count = 1

GroupMin(sp) == CHOOSE x \in {HoursOf(i) : i \in GroupMembers(sp)} :
                  \A i \in GroupMembers(sp) : x <= HoursOf(i)

GroupMax(sp) == CHOOSE x \in {HoursOf(i) : i \in GroupMembers(sp)} :
                  \A i \in GroupMembers(sp) : x >= HoursOf(i)

(* C2: for every estimate group, lowerWhisker >= the smallest hours value of
   the group and upperWhisker <= the largest hours value of the group. *)
C2_WhiskersClamped ==
  reads["boxplot"].done =>
    \A stat \in BoxStats :
      /\ stat.lowerWhisker >= GroupMin(stat.label)
      /\ stat.upperWhisker <= GroupMax(stat.label)

(* both fences q1 - 1.5 iqr and q3 + 1.5 iqr fall outside the data: the clamp acts *)
C2_Witness ==
  /\ reads["boxplot"].done
  /\ \E stat \in BoxStats :
       /\ stat.q3 > stat.q1
       /\ 2 * stat.q1 - 3 * (stat.q3 - stat.q1) < 2 * GroupMin(stat.label)
       /\ 2 * stat.q3 + 3 * (stat.q3 - stat.q1) > 2 * GroupMax(stat.label)
       /\ stat.lowerWhisker = GroupMin(stat.label)
       /\ stat.upperWhisker = GroupMax(stat.label)

(* C3: an hours value of a group is in the group's outliers list if and only
   if it is strictly below lowerWhisker or strictly above upperWhisker; a
   value equal to a whisker is never an outlier. *)
C3_OutliersStrictlyOutside ==
  reads["boxplot"].done =>
    \A stat \in BoxStats :
      LET Outside(h) == h < stat.lowerWhisker \/ h > stat.upperWhisker
      IN /\ \A i \in GroupMembers(stat.label) :
              (HoursOf(i) \in Range(stat.outliers)) <=> Outside(HoursOf(i))
         /\ \A h \in Range(stat.outliers) : \E i \in GroupMembers(stat.label) : HoursOf(i) = h
         /\ Len(stat.outliers) = Cardinality({i \in GroupMembers(stat.label) : Outside(HoursOf(i))})

(* a group with an outlier, and a group value on a whisker that is none *)
C3_Witness ==
  /\ reads["boxplot"].done
  /\ \E stat \in BoxStats :
       /\ stat.outliers # <<>>
       /\ \E i \in GroupMembers(stat.label) :
            HoursOf(i) = stat.lowerWhisker /\ HoursOf(i) \notin Range(stat.outliers)

Occurrences(s, x) == Cardinality({j \in 1..Len(s) : s[j] = x})

(* C10: the hours of each record with estimate > 0 and actualHours > 0 are in
   exactly one group, the group keyed by the record's estimate; nothing else
   is in a group, no group is empty, and the groups are emitted in strictly
   ascending order of estimate. *)
C10_Grouping ==
  reads["boxplot"].done =>
    LET groups == boxplot.storyPointGroups
    IN /\ DOMAIN groups = {ExtractStoryPoints(issues[i]).n : i \in BoxRecords}
       /\ \A sp \in DOMAIN groups :
            /\ Len(groups[sp]) >= 1
            /\ Len(groups[sp]) = Cardinality(GroupMembers(sp))
            /\ \A x \in Range(groups[sp]) \cup {HoursOf(i) : i \in GroupMembers(sp)} :
                 Occurrences(groups[sp], x) =
                   Cardinality({i \in GroupMembers(sp) : HoursOf(i) = x})
       /\ Range(boxplot.labels) = DOMAIN groups
       /\ \A j \in 1..(Len(boxplot.labels) - 1) : boxplot.labels[j] < boxplot.labels[j + 1]
       /\ \A j \in 1..Len(boxplot.labels) :
            boxplot.boxplotStats[j].count = Len(groups[boxplot.labels[j]])

(* two groups, one of them with several records, next to records that are in no group *)
C10_Witness ==
  /\ reads["boxplot"].done
  /\ Len(boxplot.labels) = 2
  /\ \E sp \in DOMAIN boxplot.storyPointGroups : Len(boxplot.storyPointGroups[sp]) >= 2
  /\ Cardinality(BoxRecords) < Len(issues)
  /\ \E i, j \in BoxRecords :
       i < j /\ ExtractStoryPoints(issues[i]).n > ExtractStoryPoints(issues[j]).n

---------------------------------------------------------------------------
(* Properties of createHistogramData and createScatterplotData *)

HistogramTotal ==
  LET Total(dataset) == SumSeq(dataset.data)
  IN SumSeq(Map(histogram.datasets, Total))

RecordsWithHours ==
  {i \in 1..Len(issues) :
     InWindow(issues[i], reads["histogram"]) /\ ExtractTimeSpentHours(issues[i]) > 0}

(* C4: the bucket counts of all series returned by createHistogramData sum to
   the number of time-filtered records with actualHours > 0, whatever the
   estimate of those records is. *)
C4_HistogramComplete ==
  reads["histogram"].done => HistogramTotal = Cardinality(RecordsWithHours)

(* the records that a returned series stands for *)
SeriesMembers(dataset) ==
  {i \in RecordsWithHours :
     IF dataset.noStoryPoints
     THEN ExtractStoryPoints(issues[i]) = Num(0)
     ELSE GreaterThanZero(ExtractStoryPoints(issues[i]))
            /\ ExtractStoryPoints(issues[i]).n = dataset.storyPoint}

(* the bucket [0,5), [5,10), [10,20), [20,40), [40,inf) of an hours value *)
BucketOf(hours) ==
  CASE hours < 5 * HourUnit -> 1
    [] 5 * HourUnit <= hours /\ hours < 10 * HourUnit -> 2
    [] 10 * HourUnit <= hours /\ hours < 20 * HourUnit -> 3
    [] 20 * HourUnit <= hours /\ hours < 40 * HourUnit -> 4
    [] 40 * HourUnit <= hours -> 5

(* C15: within a histogram series every record of the series is counted in
   exactly one of the five buckets [0,5), [5,10), [10,20), [20,40), [40,inf),
   the one with min <= actualHours < max: 5, 10, 20 and 40 fall in the bucket
   they open and every value >= 40 falls in the last bucket. *)
C15_OneBucketEach ==
  reads["histogram"].done =>
    \A d \in 1..Len(histogram.datasets) :
      LET dataset == histogram.datasets[d]
      IN /\ Len(dataset.data) = 5
         /\ \A j \in 1..5 :
              dataset.data[j] =
                Cardinality({i \in SeriesMembers(dataset) : BucketOf(HoursOf(i)) = j})
         /\ SumSeq(dataset.data) = Cardinality(SeriesMembers(dataset))

(* records of exactly 5, 10 and 40 hours: counted in the second, third and
   last bucket of their series *)
C15_Witness ==
  /\ reads["histogram"].done
  /\ {HoursOf(i) : i \in 1..Len(issues)} = {5 * HourUnit, 10 * HourUnit, 40 * HourUnit}
  /\ Len(histogram.datasets) = 2
  /\ histogram.datasets[1].data = <<0, 1, 0, 0, 0>>
  /\ histogram.datasets[2].data = <<0, 0, 1, 0, 1>>

EstimateSeries == SelectSeq(histogram.datasets, LAMBDA dataset : ~dataset.noStoryPoints)

CatchAllSeries == SelectSeq(histogram.datasets, LAMBDA dataset : dataset.noStoryPoints)

HistogramEstimates ==
  {ExtractStoryPoints(issues[i]).n :
     i \in {r \in RecordsWithHours : GreaterThanZero(ExtractStoryPoints(issues[r]))}}

(* C16: the series returned by createHistogramData are exactly one series per
   distinct estimate among the records with estimate > 0 and actualHours > 0,
   in ascending order of estimate, plus one 'No Story Points' series if and
   only if some record has actualHours > 0 and no usable estimate; no returned
   series has all five buckets equal to zero. *)
C16_SeriesExact ==
  reads["histogram"].done =>
    /\ Len(EstimateSeries) = Cardinality(HistogramEstimates)
    /\ {EstimateSeries[j].storyPoint : j \in 1..Len(EstimateSeries)} = HistogramEstimates
    /\ \A j \in 1..(Len(EstimateSeries) - 1) :
         EstimateSeries[j].storyPoint < EstimateSeries[j + 1].storyPoint
    /\ histogram.datasets = EstimateSeries \o CatchAllSeries
    /\ Len(CatchAllSeries) <= 1
    /\ (Len(CatchAllSeries) = 1) <=>
         \E i \in RecordsWithHours : ~GreaterThanZero(ExtractStoryPoints(issues[i]))
    /\ \A j \in 1..Len(histogram.datasets) :
         \E k \in 1..Len(histogram.datasets[j].data) : histogram.datasets[j].data[k] > 0

ScatterRecords ==
  {i \in 1..Len(issues) : InWindow(issues[i], reads["scatter"]) /\ BothPositive(issues[i])}

DegenerateRegression ==
  \/ Cardinality(ScatterRecords) < 2
  \/ \A i, j \in ScatterRecords : ExtractStoryPoints(issues[i]).n = ExtractStoryPoints(issues[j]).n

(* C5: when the regression input is degenerate (fewer than 2 points, or all
   points with the same estimate) the result signals "no trend": no trend-line
   points, no trend-line data set, and a slope and intercept that are not NaN
   or an infinity. *)
C5_NoTrendWhenDegenerate ==
  (reads["scatter"].done /\ DegenerateRegression) =>
    /\ scatter.trendLineData = <<>>
    /\ Len(scatter.datasets) = 1
    /\ IsFinite(scatter.trend.slope)
    /\ IsFinite(scatter.trend.intercept)

(* the records behind the scatter points, in the order of the issues list *)
ScatterOrder == SetToSortedSeq(ScatterRecords)

EstimateOf(i) == ExtractStoryPoints(issues[i]).n

SumX == LET F(i) == EstimateOf(i) IN SumSeq(Map(ScatterOrder, F))

SumY == LET F(i) == HoursOf(i) IN SumSeq(Map(ScatterOrder, F))

SumXY == LET F(i) == EstimateOf(i) * HoursOf(i) IN SumSeq(Map(ScatterOrder, F))

SumXX == LET F(i) == EstimateOf(i) * EstimateOf(i) IN SumSeq(Map(ScatterOrder, F))

(* C12: the scatter data set has exactly one point (estimate, actualHours) per
   time-filtered record with estimate > 0 and actualHours > 0 and no point for
   any other record; slope and intercept are computed from the sums over
   exactly these records, each counted once. *)
C12_ScatterPoints ==
  reads["scatter"].done =>
    LET pts == scatter.scatterData
        n == Cardinality(ScatterRecords)
    IN /\ Len(pts) = n
       /\ \A j \in 1..Len(pts) : pts[j].label \in ScatterRecords
       /\ \A i \in ScatterRecords :
            \E j \in 1..Len(pts) :
              /\ pts[j] = [x |-> EstimateOf(i), y |-> HoursOf(i), label |-> i]
              /\ \A k \in 1..Len(pts) : pts[k].label = i => k = j
       /\ ~DegenerateRegression =>
            /\ scatter.trend.slope = Slope(n, SumX, SumY, SumXY, SumXX)
            /\ scatter.trend.intercept = Intercept(n, SumX, SumY, scatter.trend.slope)

(* two points with different estimates next to a record with hours only *)
C12_Witness ==
  /\ reads["scatter"].done
  /\ Len(issues) = 3
  /\ Len(scatter.scatterData) = 2
  /\ ~DegenerateRegression
  /\ \E i \in 1..Len(issues) : EstimateOf(i) = 0 /\ HoursOf(i) > 0

(* the scatter records lie on one line through the records p and q *)
OnLineThrough(p, q) ==
  /\ EstimateOf(p) # EstimateOf(q)
  /\ \A r \in ScatterRecords :
       (HoursOf(r) - HoursOf(p)) * (EstimateOf(q) - EstimateOf(p)) =
         (HoursOf(q) - HoursOf(p)) * (EstimateOf(r) - EstimateOf(p))

(* C13: for at least 2 points with at least two distinct x that lie exactly on
   a line y = a*x + b, calculateTrendLine returns slope a and intercept b. *)
C13_ExactOnLine ==
  reads["scatter"].done =>
    \A p, q \in ScatterRecords :
      OnLineThrough(p, q) =>
        LET dx == EstimateOf(q) - EstimateOf(p)
            dy == HoursOf(q) - HoursOf(p)
        IN /\ scatter.trend.slope = Fin(dy, dx)
           /\ scatter.trend.intercept = Fin(HoursOf(p) * dx - dy * EstimateOf(p), dx)

(* three points of y = 3x + 2: slope 3 hours per point, intercept 2 hours *)
C13_Witness ==
  /\ reads["scatter"].done
  /\ Cardinality(ScatterRecords) = 3
  /\ \A r \in ScatterRecords : HoursOf(r) = (3 * EstimateOf(r) + 2) * HourUnit
  /\ Cardinality({EstimateOf(r) : r \in ScatterRecords}) = 3
  /\ scatter.trend.slope = Whole(3 * HourUnit)
  /\ scatter.trend.intercept = Whole(2 * HourUnit)

MinX == SetMin({EstimateOf(r) : r \in ScatterRecords})

MaxX == SetMax({EstimateOf(r) : r \in ScatterRecords})

FittedValue(x) == JsAdd(JsMul(scatter.trend.slope, x), scatter.trend.intercept)

(* C14: when a trend exists (two or more points, two or more distinct
   estimates), the trend line has exactly two points, at
   x = max(0, minX - 0.1*(maxX - minX)) and x = maxX + 0.1*(maxX - minX), and
   the y of each is the fitted value slope*x + intercept. *)
C14_TrendLineEndpoints ==
  (reads["scatter"].done /\ ~DegenerateRegression) =>
    LET pad == Fin(MaxX - MinX, 10)
        line == scatter.trendLineData
    IN /\ Len(line) = 2
       /\ line[1].x = JsMax(Whole(0), JsSub(Whole(MinX), pad))
       /\ line[2].x = JsAdd(Whole(MaxX), pad)
       /\ line[1].y = FittedValue(line[1].x)
       /\ line[2].y = FittedValue(line[2].x)

---------------------------------------------------------------------------
(* Properties of filterIssuesByTime *)

(* the call read the same instant twice: the clock stood still at now *)
FixedNow == reads["filter"].done /\ reads["filter"].now = reads["filter"].cutoffDate

WindowRank(tf) ==
  CASE tf = "1h" -> 1 [] tf = "1d" -> 2 [] tf = "1w" -> 3
    [] tf = "1m" -> 4 [] tf = "3m" -> 5 [] tf = "all" -> 6

CountAt(tf, now) == Len(filterIssuesByTime(issues, tf, now, now))

(* C7: for a fixed now and a fixed record list the number of records that
   filterIssuesByTime returns is monotone in the window:
   count(1h) <= count(1d) <= count(1w) <= count(1m) <= count(3m) <= count(all),
   also at month ends where the calendar subtraction carries over. *)
C7_WindowMonotone ==
  FixedNow =>
    LET now == reads["filter"].now
    IN /\ Len(filteredIssues) = CountAt(timeFilter, now)
       /\ \A tf \in TimeFilters :
            /\ WindowRank(tf) >= WindowRank(timeFilter) => Len(filteredIssues) <= CountAt(tf, now)
            /\ WindowRank(tf) <= WindowRank(timeFilter) => CountAt(tf, now) <= Len(filteredIssues)

(* on 31 May, where one month back is 31 April: the month window keeps more
   than the week window and fewer than the three-month window *)
C7_Witness ==
  /\ FixedNow
  /\ reads["filter"].now = At(2024, 4, 31, 23)
  /\ timeFilter = "1m"
  /\ CountAt("1w", reads["filter"].now) < Len(filteredIssues)
  /\ Len(filteredIssues) < CountAt("3m", reads["filter"].now)

(* C8: with window "all", filterIssuesByTime returns the input list unchanged,
   records with a missing or unparseable updated timestamp included. *)
C8_AllIsIdentity ==
  (reads["filter"].done /\ timeFilter = "all") => filteredIssues = issues

C8_Witness ==
  /\ reads["filter"].done
  /\ timeFilter = "all"
  /\ Len(filteredIssues) = 2
  /\ ~filteredIssues[1].updated.valid
  /\ filteredIssues[2].updated.valid

(* the months before the month of now, last first *)
MonthBefore(now, j) ==
  LET m == MonthFromTime(now) - j
  IN IF m >= 0 THEN [year |-> YearFromTime(now), month |-> m]
     ELSE [year |-> YearFromTime(now) - 1, month |-> m + 12]

DaysOfMonthBefore(now, j) == DaysInMonth(MonthBefore(now, j).year, MonthBefore(now, j).month)

(* the duration of a window in hours: an hour, a day, a week, the length of
   the previous calendar month, the length of the previous three months *)
WindowHours(tf, now) ==
  CASE tf = "1h" -> 1
    [] tf = "1d" -> 24
    [] tf = "1w" -> 7 * 24
    [] tf = "1m" -> 24 * DaysOfMonthBefore(now, 1)
    [] tf = "3m" -> 24 * (DaysOfMonthBefore(now, 1) + DaysOfMonthBefore(now, 2)
                            + DaysOfMonthBefore(now, 3))

Retained(issue, tf, now) ==
  issue.updated.valid /\ issue.updated.time >= now - WindowHours(tf, now)

(* C9: for every window other than "all" and a fixed now, filterIssuesByTime
   keeps a record if and only if its updated timestamp parses and is >= the
   cutoff, now minus the duration of the window, the cutoff included; a record
   with an unparseable timestamp is dropped. *)
C9_RetainedIffNotBeforeCutoff ==
  (FixedNow /\ timeFilter # "all") =>
    LET now == reads["filter"].now
        Kept(issue) == Retained(issue, timeFilter, now)
    IN filteredIssues = SelectSeq(issues, Kept)

(* a record exactly on the month cutoff of 31 March is kept, and an
   unparseable one is dropped *)
C9_Witness ==
  /\ FixedNow
  /\ timeFilter = "1m"
  /\ reads["filter"].now = At(2024, 2, 31, 0)
  /\ Len(issues) = 2
  /\ ~issues[1].updated.valid
  /\ issues[2].updated = ValidDate(At(2024, 2, 2, 0))
  /\ filteredIssues = <<issues[2]>>

---------------------------------------------------------------------------
(* Properties of processIssuesForCharts *)

LessOrEqualZero(v) == v.t = "number" /\ v.n <= 0

(* the records of the issues list with estimate <= 0 and actualHours <= 0 *)
NoSignalRecords ==
  {i \in 1..Len(issues) :
     LessOrEqualZero(ExtractStoryPoints(issues[i])) /\ ExtractTimeSpentHours(issues[i]) <= 0}

GroupSizes ==
  LET Size(sp) == Len(boxplot.storyPointGroups[sp])
  IN SumSeq(Map(boxplot.labels, Size))

(* C11: no record with estimate <= 0 and actualHours <= 0 reaches a statistic:
   the list that processIssuesForCharts returns holds none of them, no scatter
   point is one of them, no boxplot group is keyed by an estimate <= 0 or holds
   hours <= 0, and the boxplot groups and histogram counts take no more
   records than the other records of the window. *)
C11_NoSignalDropped ==
  /\ reads["render"].done =>
        \A j \in 1..Len(renderIssues) :
          /\ renderIssues[j].key \notin NoSignalRecords
          /\ ~(LessOrEqualZero(renderIssues[j].storyPoints)
                 /\ renderIssues[j].timeSpentHours <= 0)
  /\ reads["scatter"].done =>
        \A j \in 1..Len(scatter.scatterData) :
          scatter.scatterData[j].label \notin NoSignalRecords
  /\ reads["boxplot"].done =>
        /\ \A sp \in DOMAIN boxplot.storyPointGroups :
             sp > 0 /\ \A h \in Range(boxplot.storyPointGroups[sp]) : h > 0
        /\ GroupSizes <=
             Cardinality({i \in 1..Len(issues) \ NoSignalRecords :
                            InWindow(issues[i], reads["boxplot"])})
  /\ reads["histogram"].done =>
        HistogramTotal <=
          Cardinality({i \in 1..Len(issues) \ NoSignalRecords :
                         InWindow(issues[i], reads["histogram"])})

(* a negative estimate with negative hours next to a record that is kept,
   after all three charts were computed *)
C11_Witness ==
  /\ reads["render"].done /\ reads["boxplot"].done
  /\ reads["scatter"].done /\ reads["histogram"].done
  /\ \E i \in NoSignalRecords : ExtractStoryPoints(issues[i]).n < 0
  /\ Len(renderIssues) = 1
  /\ Len(issues) = 2

(* the records whose fields.updated is missing: new Date(undefined) is an
   Invalid Date *)
LacksUpdated == {i \in 1..Len(issues) : ~issues[i].updated.valid}

(* C19: a raw record that lacks its identifier or its updated timestamp is
   skipped under every window: it is not in the list that
   processIssuesForCharts returns, it is no scatter point, and the boxplot
   groups and histogram counts take only records that have both; the other
   records of the batch are still processed. *)
C19_MalformedSkipped ==
  /\ reads["render"].done =>
        /\ \A j \in 1..Len(renderIssues) : renderIssues[j].key \notin LacksUpdated
        /\ \A i \in (1..Len(issues)) \ (LacksUpdated \cup NoSignalRecords) :
             (InWindow(issues[i], reads["render"]) /\ HasSignal(ProcessIssue(issues[i])))
               => \E j \in 1..Len(renderIssues) : renderIssues[j].key = i
  /\ reads["scatter"].done =>
        \A j \in 1..Len(scatter.scatterData) :
          scatter.scatterData[j].label \notin LacksUpdated
  /\ reads["boxplot"].done => GroupSizes = Cardinality(BoxRecords \ LacksUpdated)
  /\ reads["histogram"].done =>
        HistogramTotal <= Cardinality(RecordsWithHours \ LacksUpdated)

(* function f ran and its time filter kept no record of the issues list *)
EmptyWindow(f) ==
  reads[f].done /\ \A i \in 1..Len(issues) : ~InWindow(issues[i], reads[f])

(* C20: when the time-filtered record set is empty, createBoxplotData returns
   no labels, createScatterplotData returns no data points and no trend-line
   data set, createHistogramData returns no series over the five bucket
   labels, and renderRealChart shows the 'no data' placeholder, never a chart. *)
C20_EmptyIsNoData ==
  /\ EmptyWindow("boxplot") =>
        boxplot.labels = <<>> /\ boxplot.boxplotStats = <<>>
  /\ EmptyWindow("scatter") =>
        /\ scatter.scatterData = <<>>
        /\ scatter.trendLineData = <<>>
        /\ \A j \in 1..Len(scatter.datasets) : scatter.datasets[j].label # "Trend Line"
  /\ EmptyWindow("histogram") =>
        histogram.datasets = <<>> /\ Len(histogram.labels) = 5
  /\ EmptyWindow("render") =>
        /\ renderIssues = <<>>
        /\ \E graphType \in GraphTypes : rendered[graphType] = "placeholder"
        /\ \A graphType \in GraphTypes : rendered[graphType] # "chart"

(* a record with signal that is older than the one-day window: all four ran
   and all of them came out empty *)
C20_Witness ==
  /\ timeFilter = "1d"
  /\ \E i \in 1..Len(issues) : issues[i].updated.valid /\ BothPositive(issues[i])
  /\ EmptyWindow("boxplot") /\ EmptyWindow("scatter")
  /\ EmptyWindow("histogram") /\ EmptyWindow("render")
  /\ \A graphType \in GraphTypes : rendered[graphType] = "placeholder"

(* the seconds of the first of the three sources that yields a positive value *)
FirstPositiveSeconds(issue) ==
  IF GreaterThanZero(issue.timespent) THEN issue.timespent.n
  ELSE IF GreaterThanZero(issue.timeSpentSeconds) THEN issue.timeSpentSeconds.n
  ELSE IF SumSeq(issue.worklogs) > 0 THEN SumSeq(issue.worklogs)
  ELSE 0

(* C17: the extracted seconds are those of the first source, in the order
   timespent, timetracking.timeSpentSeconds, sum of the worklog entries, that
   yields a positive value; an absent, zero or non-positive source is passed
   over, sources are never added together, and hours = seconds / 3600. *)
C17_FirstPositiveSource ==
  reads["render"].done =>
    \A j \in 1..Len(renderIssues) :
      renderIssues[j].timeSpentHours * SecondsPerHour =
        FirstPositiveSeconds(issues[renderIssues[j].key]) * HourUnit

(* the positions in the chain of the known fields that hold a non-zero value *)
NonZeroKnown(issue) ==
  {j \in 1..Len(KnownStoryPointFields) :
     \E e \in Range(issue.custom) :
       e.field = KnownStoryPointFields[j] /\ e.value # Num(0) /\ e.value # Undefined}

(* the positions in the enumeration of the fields that the fallback accepts *)
FallbackPositions(issue) ==
  {i \in 1..Len(issue.custom) :
     /\ StartsWithCustomfield(issue.custom[i].field)
     /\ issue.custom[i].value.t = "number"
     /\ issue.custom[i].value.n > 0
     /\ issue.custom[i].value.n <= 100}

ExpectedEstimate(issue) ==
  IF NonZeroKnown(issue) # {}
  THEN LET name == KnownStoryPointFields[SetMin(NonZeroKnown(issue))]
       IN (CHOOSE e \in Range(issue.custom) : e.field = name).value
  ELSE IF FallbackPositions(issue) # {}
       THEN issue.custom[SetMin(FallbackPositions(issue))].value
       ELSE Num(0)

(* C18: the estimate is the first non-zero value among customfield_10016,
   customfield_10004, customfield_10002, customfield_10003, customfield_10005
   in that order; only if all five are absent or zero it is the value of the
   first field, in enumeration order, whose name starts with 'customfield_'
   and whose value is a number in (0, 100]; otherwise it is 0. *)
C18_EstimateExtraction ==
  reads["render"].done =>
    \A j \in 1..Len(renderIssues) :
      renderIssues[j].storyPoints = ExpectedEstimate(issues[renderIssues[j].key])

(* the fallback passes over workratio, whose name is not a custom field's, and
   takes the custom field after it *)
C18_Witness ==
  /\ reads["render"].done
  /\ Len(renderIssues) = 1
  /\ issues[1].custom =
       <<[field |-> "workratio", value |-> Num(3)],
         [field |-> "customfield_10001", value |-> Num(MaxFallbackValue)]>>
  /\ renderIssues[1].storyPoints = Num(MaxFallbackValue)

---------------------------------------------------------------------------
(* Properties of the whole pipeline *)

(* function f is run again and its first clock read, now, is what it was in
   its previous run; issues and window are what they were *)
SameInputsAgain(f) ==
  /\ reads[f].done
  /\ reads'[f].done
  /\ reads'[f].now = reads[f].now
  /\ issues' = issues
  /\ timeFilter' = timeFilter

(* C6: running the pipeline (time filter, extraction, boxplot, scatter,
   histogram) twice on identical issues, identical window and identical now
   gives identical outputs: the result depends on nothing else. *)
C6_Idempotent ==
  [][/\ SameInputsAgain("filter") => filteredIssues' = filteredIssues
     /\ SameInputsAgain("boxplot") => boxplot' = boxplot
     /\ SameInputsAgain("scatter") => scatter' = scatter
     /\ SameInputsAgain("histogram") => histogram' = histogram]_vars

---------------------------------------------------------------------------
(* Frame of the chart computation *)

(* C21: every call of processIssuesForCharts (in renderRealChart),
   createBoxplotData, createScatterplotData and createHistogramData leaves the
   issues list (records, fields, order) and the selected time window as they
   were, and the record list renderRealChart got from processIssuesForCharts
   is changed by no later create call: only a new render pass replaces it *)
C21_ReadOnly ==
  [][/\ issues' = issues
     /\ timeFilter' = timeFilter
     /\ (renderIssues' = renderIssues \/ RenderRealChart)]_vars

(* two different records under "all", where filterIssuesByTime hands the
   issues array itself to the later stages, after all three charts and a
   render pass were computed *)
C21_Witness ==
  /\ timeFilter = "all"
  /\ Len(issues) = 2 /\ Reverse(issues) # issues
  /\ Len(renderIssues) = 2
  /\ \A f \in {"boxplot", "scatter", "histogram", "render"} : reads[f].done
  /\ Len(boxplot.labels) > 0

---------------------------------------------------------------------------
(* Deviation classification of the estimate groups *)

TotalPoints == SumSeq([k \in 1..Len(issues) |->
                 IF k \in BoxRecords THEN ExtractStoryPoints(issues[k]).n ELSE 0])

TotalHours == SumSeq([k \in 1..Len(issues) |-> IF k \in BoxRecords THEN HoursOf(k) ELSE 0])

GroupHoursSum(sp) ==
  SumSeq([k \in 1..Len(issues) |-> IF k \in GroupMembers(sp) THEN HoursOf(k) ELSE 0])

(* percentDiff = |groupMean - sp * expected| / (sp * expected) with
   groupMean = GroupHoursSum / count and expected = TotalHours / TotalPoints,
   as the fraction num / den of integers *)
PercentDiffNum(sp) ==
  Abs(GroupHoursSum(sp) * TotalPoints - sp * TotalHours * Cardinality(GroupMembers(sp)))

PercentDiffDen(sp) == Cardinality(GroupMembers(sp)) * sp * TotalHours

ExpectedClassification(sp) ==
  IF PercentDiffDen(sp) = 0 THEN "undefined"
  ELSE IF 100 * PercentDiffNum(sp) < 15 * PercentDiffDen(sp) THEN "on-target"
  ELSE IF 100 * PercentDiffNum(sp) < 30 * PercentDiffDen(sp) THEN "moderate-deviation"
  ELSE "high-deviation"

(* C22: every estimate group of the result carries exactly one deviation
   classification, the one its percentDiff selects: "on-target" below 0.15,
   "moderate-deviation" from 0.15 to below 0.30, "high-deviation" from 0.30,
   "undefined" when the expected hours are zero *)
C22_GroupsClassified ==
  \A stat \in BoxStats :
    /\ "classification" \in DOMAIN stat
    /\ stat.classification = ExpectedClassification(stat.label)

---------------------------------------------------------------------------
(* Order of the boxplot statistics *)

(* C27: for every estimate group lowerWhisker <= q1 <= median <= q3 <=
   upperWhisker, so each of the four stacked segments of the group is
   non-negative and together they reach from lowerWhisker to upperWhisker *)
C27_StatsOrdered ==
  \A g \in 1..Len(boxplot.boxplotStats) :
    LET stat == boxplot.boxplotStats[g]
        segment == [d \in 1..4 |-> boxplot.datasets[d][g]]
    IN /\ stat.lowerWhisker <= stat.q1
       /\ stat.q1 <= stat.median
       /\ stat.median <= stat.q3
       /\ stat.q3 <= stat.upperWhisker
       /\ \A d \in 1..4 : segment[d] >= 0
       /\ segment[1] + segment[2] + segment[3] + segment[4] =
            stat.upperWhisker - stat.lowerWhisker

(* a group of three values 1 h, 9 h, 10 h: the lower whisker is clamped to
   the minimum, all five statistics differ except q3 = upperWhisker, and a
   second group stands next to it *)
C27_Witness ==
  /\ reads["boxplot"].done
  /\ Len(boxplot.boxplotStats) = 2
  /\ \E g \in 1..2 :
       /\ boxplot.boxplotStats[g].count = 3
       /\ boxplot.boxplotStats[g].q1 < boxplot.boxplotStats[g].median
       /\ boxplot.boxplotStats[g].median < boxplot.boxplotStats[g].q3
       /\ boxplot.datasets[2][g] > 0

---------------------------------------------------------------------------
(* Properties of JiraApiService *)

SessionCleared ==
  /\ ~isAuthenticated
  /\ getAccessToken = Null
  /\ getBaseUrl = Null
  /\ clientId = Null
  /\ clientSecret = Null
  /\ sessionStorage = Null

(* C23: when logout() returns the session is cleared (isAuthenticated() is
   false, getAccessToken() and getBaseUrl() return null, client id and secret
   are null, sessionStorage has no 'jira_oauth_state'), and every later
   getProjects, getIssues or getCurrentUser call, as long as no new
   handleOAuthCallback was started, fails with 'Not authenticated' and sends
   no request *)
C23_LogoutClearsSession ==
  [][/\ Logout => SessionCleared'
     /\ \A op \in ApiOperations :
          loggedOut /\ ApiCall(op) =>
            outcome' = Outcome(op, NotAuthenticatedError) /\ sent' = sent]_vars

(* C30: from a call of logout() until a new handleOAuthCallback is started,
   isAuthenticated() is false, the access token is null and there is no API
   client, also when a handleOAuthCallback was waiting for an answer when
   logout() ran *)
C30_LogoutIsFinal ==
  loggedOut => ~isAuthenticated /\ accessToken = Null /\ api = Null

StoredStateMissing == sessionStorage = Null

BaseUrlsDiffer(state) ==
  /\ sessionStorage # Null
  /\ Parses(state)
  /\ state.base64.baseUrl # sessionStorage[1].baseUrl

BaseUrlsEqual(state) ==
  /\ sessionStorage # Null
  /\ Parses(state)
  /\ state.base64.baseUrl = sessionStorage[1].baseUrl

(* C25: a token-exchange request is sent only by a handleOAuthCallback that
   found the stored 'jira_oauth_state' and whose state parameter decodes to
   the stored baseUrl; a call that finds no stored state, or a different
   baseUrl, sends nothing and ends with the stored state removed and api,
   accessToken, baseUrl, clientId and clientSecret all null *)
C25_StateCheckedBeforeExchange ==
  [][/\ sent'.token # sent.token =>
          \E code \in Codes : \E state \in StateParams :
            HandleOAuthCallback(code, state) /\ BaseUrlsEqual(state)
     /\ \A code \in Codes : \A state \in StateParams :
          HandleOAuthCallback(code, state) /\ (StoredStateMissing \/ BaseUrlsDiffer(state)) =>
            /\ sent' = sent
            /\ callbacks' = callbacks
            /\ outcome'.op = "handleOAuthCallback"
            /\ outcome'.result \in {NotFoundError, MismatchError}
            /\ sessionStorage' = Null
            /\ api' = Null
            /\ accessToken' = Null
            /\ baseUrl' = Null
            /\ clientId' = Null
            /\ clientSecret' = Null]_vars

(* one callback passed the check and sent its token request, and a second
   one, whose state parameter names another site, has just failed *)
C25_Witness ==
  /\ outcome = Outcome("handleOAuthCallback", MismatchError)
  /\ sent.token = 1
  /\ Cardinality(callbacks) = 1
  /\ sessionStorage = Null

---------------------------------------------------------------------------
(* Properties of quick-update.sh *)

(* the script was called with --dry-run: the flag is set, or the argument
   is still to be parsed *)
WithDryRun == DRY_RUN \/ \E i \in 1..Len(args) : args[i] = "--dry-run"

NothingDeployed ==
  /\ s3 = {}
  /\ invalidations = 0
  /\ step \notin {"deploy_to_s3", "invalidate_cloudfront", "show_summary"}

(* C24 as stated: with --dry-run nothing is uploaded to or deleted from S3
   and no invalidation is created, whatever the other flags, and the script
   exits 0 after printing what it would do *)
C24_DryRunExitsZero ==
  WithDryRun =>
    /\ NothingDeployed
    /\ step = "exited" => exitStatus = Value(0) /\ DryRunMessages \subseteq printed

(* C24 amended: with --dry-run nothing is uploaded to or deleted from S3 and
   no invalidation is created, whatever the other flags; a run in which
   get_terraform_outputs succeeded prints what it would do and exits 0, and
   every other run has exited before, with a non-zero status or after the
   usage text of --help *)
C24_DryRunTouchesNothing ==
  WithDryRun =>
    /\ NothingDeployed
    /\ step = "exited" =>
         IF "Deployment target" \in printed
         THEN exitStatus = Value(0) /\ DryRunMessages \subseteq printed
         ELSE exitStatus # Value(0) \/ "Usage" \in printed

(* a dry run with --skip-invalidation and a build, at its exit *)
C24_Witness ==
  /\ DRY_RUN
  /\ SKIP_INVALIDATION
  /\ ~SKIP_BUILD
  /\ step = "exited"
  /\ exitStatus = Value(0)
  /\ DryRunMessages \subseteq printed
  /\ "Frontend built successfully" \in printed

(* invalidate_cloudfront ran and created no invalidation *)
InvalidationFailed ==
  "Invalidating CloudFront cache..." \in printed /\ invalidations = 0

(* C26: when aws cloudfront create-invalidation fails after the upload, the
   script prints the warning 'CloudFront invalidation failed (non-critical)',
   runs show_summary and exits with status 0 *)
C26_InvalidationNonCritical ==
  step = "exited" /\ InvalidationFailed =>
    /\ "CloudFront invalidation failed (non-critical)" \in printed
    /\ "Quick Update Complete!" \in printed
    /\ exitStatus = Value(0)

(* quick checks of the Dashboard's loaders *)
NoLoadIssuesInFlight == \A r \in inFlight : r.kind # "loadIssues"

(* C28: whenever no loadIssues request is in flight, the issues list is empty
   or the list a fetch for the currently selected project returns; issues of
   another project are never shown under the selected project *)
C28_IssuesOfSelectedProject ==
  NoLoadIssuesInFlight =>
    \/ issues = <<>>
    \/ selectedProject # "" /\ issues = ProjectIssues(selectedProject)

(* C29: loading is true while any of loadProjects, loadIssues, loadFieldSchema
   is in flight, and false once all of them have finished *)
C29_LoadingWhileInFlight ==
  /\ inFlight # {} => loading
  /\ inFlight = {} => ~loading

====
